---- MODULE Spec2Model ----
(***************************************************************************)
(* Model of the my_mem memory engine: the FAISS-backed long-term store     *)
(* (vector_stores/faiss.py), the per-user short-term buffer                *)
(* (memory/short_memory.py) and the Memory engine that orchestrates them   *)
(* (memory/main.py), with the thin MemoryClient wrapper (client.py).       *)
(*                                                                         *)
(* Scores are scaled by 100: the synthetic short-term score 0.99 is 99,    *)
(* the default ltm_threshold 0.75 is 75.  Embeddings are small integer     *)
(* vectors so that inner products are exact.                               *)
(***************************************************************************)
EXTENDS Integers, Sequences, FiniteSets, TLC

\* ------------------------------------------------------------------------
\*  Bounds of the model
\* ------------------------------------------------------------------------
MaxAdds == 2          \* add calls in one behaviour
MaxInfer == 1         \* add calls with infer=True in one behaviour
MaxFacts == 2         \* facts in one fact-extraction response
MaxActs == 2          \* actions in one reconciliation response
MaxHead == 2          \* SpecSearch: first adds of user A, any texts
MaxTail == 4          \* SpecSearch: last adds of user A, one text
MaxStmCalls == 3      \* SpecStm: add and clear calls in one behaviour
MaxStoreCalls == 2    \* SpecStore: mutating calls and process stops in one behaviour

\* ------------------------------------------------------------------------
\*  Program constants (scores and thresholds are in hundredths)
\* ------------------------------------------------------------------------
STM_MAX_ITEMS == 32   \* ShortTermMemory(max_items=32)
STM_RECENT_LIMIT == 32   \* short_term.recent(user_id, limit=32)
FACT_KNN_LIMIT == 5   \* candidate search per fact
SEARCH_KNN_LIMIT == 10
LTM_TOP == 3
STM_LAST == 5
STM_SCORE == 99
DEFAULT_LIMIT == 5
DEFAULT_THRESHOLD == 75

\* ------------------------------------------------------------------------
\*  Input domains
\* ------------------------------------------------------------------------
Users == {"A", "B"}
Texts == {"a", "b", "c"}
MsgTexts == {"a", "c"}
FactTexts == {"a", "b"}
WideLimits == {0, 2, 5, 9}
WideThresholds == {0, 75, 100}
SearchArgs == {<<DEFAULT_LIMIT, DEFAULT_THRESHOLD>>}   \* <<limit, ltm_threshold>>

NoneText == "<None>"      \* Python None where a text is expected
NoneTime == 0             \* Python None where a timestamp is expected
GhostId == <<"uuid", 0>>  \* an id the store never allocated

\* Embedder.embed(text, purpose): the purpose never changes the vector.
embed(t, purpose) ==
  CASE t = "a" -> <<11, 0>>
    [] t = "b" -> <<0, 10>>
    [] t = "c" -> <<9, 0>>

\* hashlib.md5(data.encode()).hexdigest(): a function of the text alone
md5(t) == <<"md5", t>>

Min(a, b) == IF a <= b THEN a ELSE b
Max(a, b) == IF a >= b THEN a ELSE b

RemoveAt(s, i) == SubSeq(s, 1, i - 1) \o SubSeq(s, i + 1, Len(s))

\* Python s[-n:]: the last n items for n >= 1, the whole list for n = 0
\* (-0 is 0), and s[k:] for n = -k < 0
LastN(s, n) ==
  IF n >= 1 THEN SubSeq(s, Max(1, Len(s) - n + 1), Len(s))
  ELSE SubSeq(s, 1 - n, Len(s))

\* Python s[:n]; a negative n drops the last -n items
FirstN(s, n) ==
  IF n >= 0 THEN SubSeq(s, 1, Min(n, Len(s)))
  ELSE SubSeq(s, 1, Max(0, Len(s) + n))

\* ------------------------------------------------------------------------
\*  FAISS store: a flat index (sequence of vectors) and an insertion-ordered
\*  dict of payloads (sequence of [id, pl]); the two are matched by position.
\*  fs = [metric_type, index_kind, index, payloads, disk], where disk holds
\*  the two files <collection>.index and <collection>.payload.json.
\* ------------------------------------------------------------------------
Metrics == {"IP", "L2"}

\* a file that does not exist; a file is [status, kind, data] with status
\* "absent", "ok" or "corrupt" (unreadable: cut short or damaged)
NoFile == [status |-> "absent", kind |-> "-", data |-> <<>>]
CorruptFile == [status |-> "corrupt", kind |-> "-", data |-> <<>>]
NoDisk == [index |-> NoFile, payloads |-> NoFile]

EmptyDict == [k \in {} |-> 0]          \* {}
NonePayload == [none |-> TRUE]         \* payload=None
NoneVec == <<>>                        \* vector=None

HasKey(pls, id) == \E i \in 1..Len(pls) : pls[i].id = id
\* list(self._payloads.keys()).index(vector_id), 1-based
KeyPos(pls, id) == CHOOSE i \in 1..Len(pls) : pls[i].id = id
\* self._payloads[_id] = pl : in place for a present key, appended otherwise
DictSet(pls, id, pl) ==
  IF HasKey(pls, id)
  THEN [pls EXCEPT ![KeyPos(pls, id)] = [id |-> id, pl |-> pl]]
  ELSE Append(pls, [id |-> id, pl |-> pl])

\* pload.get(k)
PlGet(pl, k) == IF k \in DOMAIN pl THEN pl[k] ELSE NoneText

\* _jsonable over the values of one payload: the ndarray under "__vector"
\* becomes a list, every other value is kept
FAISS_jsonable(pl) ==
  [k \in DOMAIN pl |->
     IF k = "vector" THEN [kind |-> "list", val |-> pl[k].val] ELSE pl[k]]

\* faiss.write_index(self._index, self.idx_path)
WriteIndex(fs) ==
  [fs EXCEPT !.disk.index = [status |-> "ok", kind |-> fs.index_kind,
                             data |-> fs.index]]

\* variant: the payload file is left as it was
WritePayloads_skipped(fs) == fs

\* json.dump(serialisable, f) into the payload file
WritePayloads(fs) ==
  [fs EXCEPT !.disk.payloads =
     [status |-> "ok", kind |-> "-",
      data |-> [i \in 1..Len(fs.payloads) |->
                  [id |-> fs.payloads[i].id,
                   pl |-> FAISS_jsonable(fs.payloads[i].pl)]]]]

FAISS_save(fs) == WritePayloads(WriteIndex(fs))

\* the disks a stop inside _save can leave: nothing written yet, the index
\* file cut short, the index file written, the payload file opened for
\* writing (emptied) or cut short, both written
SaveStops(fs) ==
  {fs.disk,
   [fs.disk EXCEPT !.index = CorruptFile],
   WriteIndex(fs).disk,
   [WriteIndex(fs).disk EXCEPT !.payloads = CorruptFile],
   FAISS_save(fs).disk}

\* FAISS.__init__ with _try_load: [raised, fs].  Both files are read only
\* when both exist.  When one is unreadable the handler builds
\* IndexFlatIP(self.dim) under metric IP; under metric L2 it calls
\* IndexFlatIP(IndexFlatL2(self.dim)), a TypeError that leaves the handler.
FAISS_init(metric_type, disk) ==
  LET empty == [metric_type |-> metric_type, index_kind |-> metric_type,
                index |-> <<>>, payloads |-> <<>>, disk |-> disk]
  IN IF disk.index.status = "absent" \/ disk.payloads.status = "absent"
     THEN [raised |-> FALSE, fs |-> empty]
     ELSE IF disk.index.status = "ok" /\ disk.payloads.status = "ok"
     THEN [raised |-> FALSE,
           fs |-> [empty EXCEPT !.index_kind = disk.index.kind,
                                !.index = disk.index.data,
                                !.payloads = disk.payloads.data]]
     ELSE IF metric_type = "IP"
     THEN [raised |-> FALSE, fs |-> [empty EXCEPT !.index_kind = "IP"]]
     ELSE [raised |-> TRUE, fs |-> empty]

\* an id that cannot be a dict key (a dict or a list)
Hashable(id) == id[1] # "dict"

\* the loop `for _id, pl in zip(ids, payloads): self._payloads[_id] = pl`;
\* an unhashable id raises TypeError and ends it
RECURSIVE ZipSet(_, _, _, _)
ZipSet(pls, ids, payloads, i) ==
  IF i > Min(Len(ids), Len(payloads)) THEN [raised |-> FALSE, payloads |-> pls]
  ELSE IF ~Hashable(ids[i]) THEN [raised |-> TRUE, payloads |-> pls]
  ELSE ZipSet(DictSet(pls, ids[i], payloads[i]), ids, payloads, i + 1)

\* FAISS.insert up to its _save call: [raised, fs, ids].  np.vstack raises on
\* an empty list and astype("float32") on a None vector, before anything
\* changes; ids=None or [] gives one uuid4 per vector (numbered from `fresh`),
\* payloads=None or [] one {} per vector.
InsertRows(fs, vectors, payloads, ids, fresh) ==
  IF vectors = <<>> \/ \E i \in 1..Len(vectors) : vectors[i] = NoneVec
  THEN [raised |-> TRUE, fs |-> fs, ids |-> ids]
  ELSE
    LET fs1 == [fs EXCEPT !.index = fs.index \o vectors]
        ids1 == IF ids = <<>>
                THEN [i \in 1..Len(vectors) |-> <<"uuid", fresh + i>>]
                ELSE ids
        pls1 == IF payloads = <<>>
                THEN [i \in 1..Len(vectors) |-> EmptyDict]
                ELSE payloads
        z == ZipSet(fs1.payloads, ids1, pls1, 1)
    IN [raised |-> z.raised, fs |-> [fs1 EXCEPT !.payloads = z.payloads],
        ids |-> ids1]

\* FAISS.insert(vectors, payloads, ids): [raised, fs, ids]
FAISS_insert_list(fs, vectors, payloads, ids, fresh) ==
  LET r == InsertRows(fs, vectors, payloads, ids, fresh)
  IN IF r.raised THEN r ELSE [r EXCEPT !.fs = FAISS_save(r.fs)]

\* insert(vectors=[vec], ids=[id], payloads=[pl])
FAISS_insert(fs, vec, pl, id) ==
  FAISS_insert_list(fs, <<vec>>, <<pl>>, <<id>>, 0).fs

\* faiss remove_ids([idx]): rows after idx shift down; an idx past the end
\* removes nothing
IndexRemove(ix, i) == IF i <= Len(ix) THEN RemoveAt(ix, i) ELSE ix

\* variant: the row leaves the index but its payload stays in the dict
FAISS_delete_keeps_payload(fs, id) ==
  IF ~HasKey(fs.payloads, id) THEN fs
  ELSE FAISS_save([fs EXCEPT !.index = IndexRemove(fs.index, KeyPos(fs.payloads, id))])

\* FAISS.delete of a present id up to its _save call
DeleteRow(fs, id) ==
  LET i == KeyPos(fs.payloads, id)
  IN [fs EXCEPT !.index = IndexRemove(fs.index, i),
                !.payloads = RemoveAt(fs.payloads, i)]

FAISS_delete(fs, id) ==
  IF ~HasKey(fs.payloads, id) THEN fs ELSE FAISS_save(DeleteRow(fs, id))

\* payload or {}
PayloadOrEmpty(pl) ==
  IF "none" \in DOMAIN pl \/ DOMAIN pl = {} THEN EmptyDict ELSE pl

\* variant: update inserts the new row without deleting the old one
FAISS_update_call_keeps_row(fs, id, vec, pl) ==
  FAISS_insert_list(fs, <<vec>>, <<PayloadOrEmpty(pl)>>, <<id>>, 0)


\* FAISS.update(vector_id, vector, payload): [raised, fs, ids]
FAISS_update_call(fs, id, vec, pl) ==
  FAISS_insert_list(FAISS_delete(fs, id), <<vec>>, <<PayloadOrEmpty(pl)>>, <<id>>, 0)

FAISS_update(fs, id, vec, pl) == FAISS_update_call(fs, id, vec, pl).fs

\* inner product (metric IP, the default of FAISS.__init__)
IP(u, v) == u[1] * v[1] + u[2] * v[2]

\* squared Euclidean distance, what IndexFlatL2.search reports
L2(u, v) == (u[1] - v[1]) * (u[1] - v[1]) + (u[2] - v[2]) * (u[2] - v[2])

\* the number the index reports for a row
Distance(kind, q, v) == IF kind = "IP" THEN IP(q, v) ELSE L2(q, v)

\* IndexFlatIP.search gives the rows by descending inner product,
\* IndexFlatL2.search by ascending distance; equal values by row number
RECURSIVE KnnOrder(_, _, _, _)
KnnOrder(kind, ix, q, cand) ==
  IF cand = {} THEN <<>>
  ELSE LET best == CHOOSE i \in cand : \A j \in cand :
                     \/ IF kind = "IP"
                        THEN Distance(kind, q, ix[i]) > Distance(kind, q, ix[j])
                        ELSE Distance(kind, q, ix[i]) < Distance(kind, q, ix[j])
                     \/ Distance(kind, q, ix[i]) = Distance(kind, q, ix[j]) /\ i <= j
       IN <<best>> \o KnnOrder(kind, ix, q, cand \ {best})

IndexSearch(kind, ix, q, k) == FirstN(KnnOrder(kind, ix, q, 1..Len(ix)), k)

\* variant: the payload predicate is never applied
Rejected_unfiltered(pl, filters) == FALSE

\* filters is a set of <<key, value>>; the empty set is "no filter"
Rejected(pl, filters) == \E f \in filters : PlGet(pl, f[1]) # f[2]

\* variant: every reported row is taken to have a key
RowOutOfRange_unchecked(pls, idx) == FALSE

\* idx >= len(keys), for the 1-based row number idx
RowOutOfRange(pls, idx) == idx > Len(pls)

\* keys[idx] with its payload; an index past the end is an IndexError, kept
\* here as an entry whose id names the exception
KeyAt(pls, idx) ==
  IF idx <= Len(pls) THEN pls[idx]
  ELSE [id |-> <<"IndexError", idx>>, pl |-> EmptyDict]

RECURSIVE HitsOf(_, _, _, _)
HitsOf(fs, q, rows, filters) ==
  IF rows = <<>> THEN <<>>
  ELSE LET idx == Head(rows)
           rest == HitsOf(fs, q, Tail(rows), filters)
       IN IF RowOutOfRange(fs.payloads, idx) THEN rest
          ELSE LET e == KeyAt(fs.payloads, idx)
               IN IF e.id[1] # "IndexError" /\ Rejected(e.pl, filters) THEN rest
                  ELSE <<[id |-> e.id, payload |-> e.pl,
                          score |-> Distance(fs.index_kind, q, fs.index[idx])]>> \o rest

FAISS_search(fs, q, limit, filters) ==
  HitsOf(fs, q, IndexSearch(fs.index_kind, fs.index, q, limit), filters)

\* the call raised: the scan met an exception
SearchRaised(hits) == \E i \in 1..Len(hits) : hits[i].id[1] = "IndexError"

\* FAISS.get: None (the empty sequence here) for an absent id and for an id
\* whose payload is the empty dict (`if pl`)
FAISS_get(fs, id) ==
  IF HasKey(fs.payloads, id) /\ DOMAIN fs.payloads[KeyPos(fs.payloads, id)].pl # {}
  THEN <<[id |-> id, payload |-> fs.payloads[KeyPos(fs.payloads, id)].pl]>>
  ELSE <<>>

\* FAISS.list(filters, limit): the payload scan; limit 0 stands for None
FAISS_list(fs, filters, limit) ==
  LET all == SelectSeq(fs.payloads, LAMBDA e : ~Rejected(e.pl, filters))
      cut == IF limit > 0 THEN FirstN(all, limit) ELSE all
  IN [i \in 1..Len(cut) |-> [id |-> cut[i].id, payload |-> cut[i].pl]]

\* the index file is removed first, the payload file second
FAISS_delete_col(fs) ==
  [fs EXCEPT !.index = <<>>, !.payloads = <<>>, !.disk = NoDisk]

\* FAISS.reset up to its _save call
ResetRows(fs) ==
  [FAISS_delete_col(fs) EXCEPT !.index_kind =
     IF fs.metric_type = "IP" THEN "IP" ELSE "L2"]

FAISS_reset(fs) == FAISS_save(ResetRows(fs))


\* ------------------------------------------------------------------------
\*  ShortTermMemory: per user a deque(maxlen=max_items) of entries
\* ------------------------------------------------------------------------
\* variant: a plain list, nothing is ever evicted
STM_add_unbounded(stm, user_id, text, embedding, now) ==
  [stm EXCEPT ![user_id] =
     Append(stm[user_id], [id |-> <<"stm", Len(stm[user_id]), now>>, text |-> text,
                           embedding |-> embedding, created |-> now])]

STM_add(stm, user_id, text, embedding, now) ==
  LET dq == stm[user_id]
      item == [id |-> <<"stm", Len(dq), now>>, text |-> text,
               embedding |-> embedding, created |-> now]
      kept == IF Len(dq) >= STM_MAX_ITEMS THEN Tail(dq) ELSE dq
  IN [stm EXCEPT ![user_id] = Append(kept, item)]

\* list(self._store.get(user_id, []))[-limit:]; a user without a buffer is
\* a user with the empty buffer
STM_recent(stm, user_id, limit) == LastN(stm[user_id], limit)

AllUsers == "<None>"   \* clear(user_id=None)

\* ShortTermMemory.clear: one user's buffer, or every buffer
STM_clear(stm, user_id) ==
  IF user_id = AllUsers THEN [u \in DOMAIN stm |-> <<>>]
  ELSE [stm EXCEPT ![user_id] = <<>>]

\* ------------------------------------------------------------------------
\*  Memory engine.  st = [fs, stm, history, uuid, clock]:
\*  uuid counts the uuid4 values drawn so far, clock the timestamps read.
\* ------------------------------------------------------------------------
\* SQLiteManager.add_history: one more row in the log
add_history(history, mid, prev, new, event, created_at, updated_at, is_deleted) ==
  Append(history, [memory_id |-> mid, prev_text |-> prev, new_text |-> new,
                   event |-> event, created_at |-> created_at,
                   updated_at |-> updated_at, is_deleted |-> is_deleted])

Payload(user_id, data, vec, created_at, updated_at) ==
  [user_id |-> user_id, data |-> data, hash |-> md5(data),
   created_at |-> created_at, updated_at |-> updated_at,
   vector |-> [kind |-> "ndarray", val |-> vec]]

\* variant: the record is stored but no history row is written
Memory_create_memory_unlogged(st, data, vec, user_id) ==
  LET mid == <<"uuid", st.uuid + 1>>
      now == st.clock + 1
  IN [st |-> [st EXCEPT !.fs = FAISS_insert(st.fs, vec,
                                 Payload(user_id, data, vec, now, NoneTime), mid),
                        !.uuid = st.uuid + 1,
                        !.clock = now],
      mid |-> mid]

\* variant: the id of a new record is derived from its text
Memory_create_memory_hash_id(st, data, vec, user_id) ==
  LET mid == <<"uuid", md5(data)>>
      now == st.clock + 1
      fs1 == FAISS_insert(st.fs, vec, Payload(user_id, data, vec, now, NoneTime), mid)
  IN [st |-> [st EXCEPT !.fs = fs1,
                        !.history = add_history(st.history, mid, NoneText, data,
                                                "ADD", now, NoneTime, 0),
                        !.uuid = st.uuid + 1,
                        !.clock = now],
      mid |-> mid]

\* Memory._create_memory: returns the new state and the new id
Memory_create_memory(st, data, vec, user_id) ==
  LET mid == <<"uuid", st.uuid + 1>>
      now == st.clock + 1
      fs1 == FAISS_insert(st.fs, vec, Payload(user_id, data, vec, now, NoneTime), mid)
  IN [st |-> [st EXCEPT !.fs = fs1,
                        !.history = add_history(st.history, mid, NoneText, data,
                                                "ADD", now, NoneTime, 0),
                        !.uuid = st.uuid + 1,
                        !.clock = now],
      mid |-> mid]

\* Memory._update_memory: created_at and the logged previous text come from
\* the nearest row of the whole store (limit=1, no filter)
Memory_update_memory(st, mid, new_data, vec, user_id) ==
  LET existing == FAISS_search(st.fs, vec, 1, {})
      created == IF existing # <<>> THEN existing[1].payload.created_at ELSE NoneTime
      prev == IF existing # <<>> THEN existing[1].payload.data ELSE NoneText
      now == st.clock + 1
      fs1 == FAISS_update(st.fs, mid, vec, Payload(user_id, new_data, vec, created, now))
  IN [st EXCEPT !.fs = fs1,
                !.history = add_history(st.history, mid, prev, new_data,
                                        "UPDATE", created, now, 0),
                !.clock = now]

\* Memory._delete_memory
Memory_delete_memory(st, mid) ==
  [st EXCEPT !.fs = FAISS_delete(st.fs, mid),
             !.history = add_history(st.history, mid, NoneText, NoneText,
                                     "DELETE", NoneTime, NoneTime, 1)]

\* variant: an answer that does not parse is taken as one fact
ParseFacts_raw_as_fact(fx) == IF fx.kind = "parsed" THEN fx.facts ELSE <<"a">>

\* json.loads(remove_code_blocks(resp))["facts"], any exception giving []
ParseFacts(fx) == IF fx.kind = "parsed" THEN fx.facts ELSE <<>>

\* step 3 of add: existing[h.id] = h.payload["data"] over the hits of every
\* fact, as the list of {id, text} handed to the reconciliation prompt
RECURSIVE PutAll(_, _)
PutAll(existing, hits) ==
  IF hits = <<>> THEN existing
  ELSE LET h == Head(hits)
           e == [id |-> h.id, text |-> h.payload.data]
           pos == {i \in 1..Len(existing) : existing[i].id = h.id}
       IN PutAll(IF pos = {} THEN Append(existing, e)
                 ELSE [existing EXCEPT ![CHOOSE i \in pos : TRUE] = e],
                 Tail(hits))

RECURSIVE Candidates(_, _, _, _)
Candidates(fs, facts, filters, existing) ==
  IF facts = <<>> THEN existing
  ELSE Candidates(fs, Tail(facts), filters,
         PutAll(existing,
                FAISS_search(fs, embed(Head(facts), "add"), FACT_KNN_LIMIT, filters)))

\* variant: the fallback stores the first fact only
ParseActions_first_fact(rx, facts) ==
  IF rx.kind = "parsed" THEN rx.actions
  ELSE <<[id |-> <<"fallback", 1>>, text |-> facts[1], event |-> "ADD"]>>

\* json.loads(remove_code_blocks(resp))["memory"], any exception giving one
\* ADD per fact under a uuid4 of its own
ParseActions(rx, facts) ==
  IF rx.kind = "parsed" THEN rx.actions
  ELSE [i \in 1..Len(facts) |->
          [id |-> <<"fallback", i>>, text |-> facts[i], event |-> "ADD"]]

\* the else branch of the loop: what add reports for an action whose event is
\* none of ADD, UPDATE, DELETE
NoneResult_raw_event(act) == [id |-> act.id, memory |-> act.text, event |-> act.event]

NoneResult(act) == [id |-> act.id, memory |-> act.text, event |-> "NONE"]

\* step 5 of add: the loop over the actions.  Each entry of `probes` is
\* FAISS.get of the action's id read right after the action was applied.
RECURSIVE ApplyActions(_, _, _, _, _)
ApplyActions(st, acts, user_id, results, probes) ==
  IF acts = <<>> THEN [st |-> st, results |-> results, probes |-> probes]
  ELSE
    LET act == Head(acts)
        ev == act.event
    IN IF ev = "ADD" THEN
         LET r == Memory_create_memory(st, act.text, embed(act.text, "add"), user_id)
         IN ApplyActions(r.st, Tail(acts), user_id,
              Append(results, [id |-> r.mid, memory |-> act.text, event |-> "ADD"]),
              Append(probes, [event |-> "ADD", id |-> r.mid, text |-> act.text,
                              got |-> FAISS_get(r.st.fs, r.mid)]))
       ELSE IF ev = "UPDATE" THEN
         LET st1 == Memory_update_memory(st, act.id, act.text,
                                         embed(act.text, "update"), user_id)
         IN ApplyActions(st1, Tail(acts), user_id,
              Append(results, [id |-> act.id, memory |-> act.text, event |-> "UPDATE",
                               previous_memory |-> NoneText]),
              Append(probes, [event |-> "UPDATE", id |-> act.id, text |-> act.text,
                              got |-> FAISS_get(st1.fs, act.id)]))
       ELSE IF ev = "DELETE" THEN
         LET st1 == Memory_delete_memory(st, act.id)
         IN ApplyActions(st1, Tail(acts), user_id,
              Append(results, [id |-> act.id, memory |-> act.text, event |-> "DELETE"]),
              Append(probes, [event |-> "DELETE", id |-> act.id, text |-> act.text,
                              got |-> FAISS_get(st1.fs, act.id)]))
       ELSE
         ApplyActions(st, Tail(acts), user_id,
              Append(results, NoneResult(act)), probes)

\* Memory.add.  fx and rx are what the generator answers to the
\* fact-extraction and the reconciliation prompt.  Besides the new state the
\* record carries the returned list and what the call computed on the way.
Memory_add(st, message, user_id, infer, fx, rx) ==
  LET msg_vec == embed(message, "add")
      now == st.clock + 1
      st1 == [st EXCEPT !.stm = STM_add(st.stm, user_id, message, msg_vec, now),
                        !.clock = now]
      filters == {<<"user_id", user_id>>}
  IN IF ~infer THEN
       LET r == Memory_create_memory(st1, message, msg_vec, user_id)
       IN [st |-> r.st,
           results |-> <<[id |-> r.mid, memory |-> message, event |-> "ADD"]>>,
           llm_calls |-> 0, facts |-> <<>>, existing |-> <<>>, actions |-> <<>>,
           probes |-> <<[event |-> "ADD", id |-> r.mid, text |-> message,
                         got |-> FAISS_get(r.st.fs, r.mid)]>>]
     ELSE
       LET facts == ParseFacts(fx)
       IN IF facts = <<>> THEN
            [st |-> st1, results |-> <<>>, llm_calls |-> 1, facts |-> facts,
             existing |-> <<>>, actions |-> <<>>, probes |-> <<>>]
          ELSE
            LET existing == Candidates(st1.fs, facts, filters, <<>>)
                actions == ParseActions(rx, facts)
                r == ApplyActions(st1, actions, user_id, <<>>, <<>>)
            IN [st |-> r.st, results |-> r.results, llm_calls |-> 2,
                facts |-> facts, existing |-> existing, actions |-> actions,
                probes |-> r.probes]

\* the calls of add to the embedder and the generator, in the order add makes
\* them; any of them may raise
FailurePoints(infer, facts, actions) ==
  {<<"embed_message", 0>>}
    \cup (IF infer THEN {<<"extract_facts", 0>>} ELSE {})
    \cup (IF infer /\ facts # <<>>
          THEN {<<"embed_fact", i>> : i \in 1..Len(facts)}
                 \cup {<<"reconcile", 0>>}
                 \cup {<<"embed_action", j>> :
                         j \in {k \in 1..Len(actions) :
                                  actions[k].event \in {"ADD", "UPDATE"}}}
          ELSE {})

\* Memory.add when the embedder or generator call `point` raises: nothing in
\* add catches it, so the call ends there and the engine keeps what the
\* statements before that call did
Memory_add_raises(st, message, user_id, infer, fx, rx, point) ==
  LET msg_vec == embed(message, "add")
      now == st.clock + 1
      st1 == [st EXCEPT !.stm = STM_add(st.stm, user_id, message, msg_vec, now),
                        !.clock = now]
      facts == ParseFacts(fx)
      actions == ParseActions(rx, facts)
  IN IF point[1] = "embed_message" THEN st
     ELSE IF point[1] \in {"extract_facts", "embed_fact", "reconcile"} THEN st1
     ELSE ApplyActions(st1, SubSeq(actions, 1, point[2] - 1), user_id, <<>>, <<>>).st


\* variant: equal scores come out in reverse order (sort ascending, then
\* reverse the list)
RECURSIVE SortedByScoreDesc_reversed_ties(_)
SortedByScoreDesc_reversed_ties(xs) ==
  IF xs = <<>> THEN <<>>
  ELSE LET n == Len(xs)
           x == xs[n]
           front == SortedByScoreDesc_reversed_ties(SubSeq(xs, 1, n - 1))
           k == Cardinality({i \in 1..Len(front) : front[i].score > x.score})
       IN SubSeq(front, 1, k) \o <<x>> \o SubSeq(front, k + 1, Len(front))

\* sorted(xs, key=score, reverse=True): stable, equal scores keep their order
RECURSIVE SortedByScoreDesc(_)
SortedByScoreDesc(xs) ==
  IF xs = <<>> THEN <<>>
  ELSE LET n == Len(xs)
           x == xs[n]
           front == SortedByScoreDesc(SubSeq(xs, 1, n - 1))
           k == Cardinality({i \in 1..Len(front) : front[i].score >= x.score})
       IN SubSeq(front, 1, k) \o <<x>> \o SubSeq(front, k + 1, Len(front))

LtItem(h) ==
  [id |-> h.id, memory |-> h.payload.data, hash |-> PlGet(h.payload, "hash"),
   created_at |-> h.payload.created_at, updated_at |-> h.payload.updated_at,
   score |-> h.score]

\* variant: the entry's id is put where its text belongs
StItem_id_as_text(it) ==
  [id |-> it.id, memory |-> it.id, hash |-> NoneText,
   created_at |-> it.created, updated_at |-> NoneTime, score |-> STM_SCORE]

StItem(it) ==
  [id |-> it.id, memory |-> it.text, hash |-> NoneText,
   created_at |-> it.created, updated_at |-> NoneTime, score |-> STM_SCORE]

OverThreshold(hits, ltm_threshold) ==
  SelectSeq(hits, LAMBDA h : h.score >= ltm_threshold)

\* Memory.search
Memory_search(st, query, user_id, limit, ltm_threshold) ==
  LET filters == {<<"user_id", user_id>>}
      qvec == embed(query, "search")
      lt_hits == FAISS_search(st.fs, qvec, SEARCH_KNN_LIMIT, filters)
      kept == OverThreshold(lt_hits, ltm_threshold)
      lt_items == FirstN([i \in 1..Len(kept) |-> LtItem(kept[i])], LTM_TOP)
      st_buf == STM_recent(st.stm, user_id, STM_RECENT_LIMIT)
      tail == LastN(st_buf, STM_LAST)
      st_items == [i \in 1..Len(tail) |-> StItem(tail[i])]
      merged == SortedByScoreDesc(lt_items \o st_items)
  IN FirstN(merged, limit)

\* Memory.reset: only the vector store is reset
Memory_reset(st) == [st EXCEPT !.fs = FAISS_reset(st.fs)]

\* ------------------------------------------------------------------------
\*  The state machine
\* ------------------------------------------------------------------------
VARIABLES
  vector_store,   \* Memory.vector_store: [index, payloads, disk]
  short_term,     \* Memory.short_term._store: user -> entries
  db,             \* Memory.db: the rows written by add_history
  uuid,           \* uuid4 values drawn so far
  clock,          \* timestamps read so far
  inferred,       \* add calls with infer=True made so far
  threads,        \* calls in progress on worker threads: position and locals
  client,         \* AsyncMemoryClient: cadence, switch, message counters, chat logs
  last            \* the last call: arguments, what it returned, the state before

vars == <<vector_store, short_term, db, uuid, clock, inferred, threads, client,
          last>>

NoClient == <<>>    \* no AsyncMemoryClient has been constructed

State == [fs |-> vector_store, stm |-> short_term, history |-> db,
          uuid |-> uuid, clock |-> clock]

Snapshot == [vector_store |-> vector_store, short_term |-> short_term, db |-> db]

\* the store of a new engine: FAISS.__init__ on a path with no files, with
\* the default metric_type "IP"
NewStore == FAISS_init("IP", NoDisk).fs

NoFx == [kind |-> "none", facts |-> <<>>]
NoRx == [kind |-> "none", actions |-> <<>>]
NoCall == [op |-> "none", user_id |-> "-", text |-> "-", infer |-> FALSE,
           ltm_empty |-> FALSE, stm_before |-> 0]

\* what a search remembers of the call before it, when that was an add
Summary ==
  IF last.op = "add"
  THEN [op |-> "add", user_id |-> last.user_id, text |-> last.text,
        infer |-> last.infer,
        ltm_empty |-> last.pre.vector_store.payloads = <<>>,
        stm_before |-> Len(last.pre.short_term[last.user_id])]
  ELSE NoCall

SeqsUpTo(S, n) == UNION {[1..k -> S] : k \in 0..n}

\* what the generator may answer to the fact-extraction prompt
FactResponses ==
  {[kind |-> k, facts |-> <<>>] : k \in {"invalid_json", "no_facts_key"}}
    \cup {[kind |-> "parsed", facts |-> f] : f \in SeqsUpTo(FactTexts, MaxFacts)}

StoredIds(fs) == {fs.payloads[i].id : i \in 1..Len(fs.payloads)}

\* the actions the generator may put in a reconciliation answer: any op, on
\* any id of the store (of any user) or on an id the store does not hold
ActionsOver(ids) ==
  {[id |-> GhostId, text |-> "b", event |-> "ADD"],
   [id |-> GhostId, text |-> "b", event |-> "NONE"]}
    \cup {[id |-> i, text |-> t, event |-> "UPDATE"] : i \in ids, t \in FactTexts}
    \cup {[id |-> i, text |-> "a", event |-> "DELETE"] : i \in ids}
    \cup {[id |-> i, text |-> "b", event |-> "MERGE"] : i \in ids}

ReconResponses(ids) ==
  {[kind |-> k, actions |-> <<>>] : k \in {"invalid_json", "no_memory_key"}}
    \cup {[kind |-> "parsed", actions |-> a] : a \in SeqsUpTo(ActionsOver(ids), MaxActs)}

\* add calls made so far: every add appends one short-term entry
RECURSIVE TotalLen(_, _)
TotalLen(stm, us) ==
  IF us = {} THEN 0
  ELSE LET u == CHOOSE x \in us : TRUE
       IN Len(stm[u]) + TotalLen(stm, us \ {u})

AddsSoFar == TotalLen(short_term, Users)

Init ==
  /\ vector_store = NewStore
  /\ short_term = [u \in Users |-> <<>>]
  /\ db = <<>>
  /\ uuid = 0
  /\ clock = 0
  /\ inferred = 0
  /\ threads = <<>>
  /\ client = NoClient
  /\ last = [op |-> "init", user_id |-> "-", text |-> "-", infer |-> FALSE,
             limit |-> 0, threshold |-> 0, fx |-> NoFx, rx |-> NoRx,
             facts |-> <<>>, existing |-> <<>>, actions |-> <<>>,
             results |-> <<>>, items |-> <<>>, llm_calls |-> 0, probes |-> <<>>,
             pre |-> [vector_store |-> NewStore,
                      short_term |-> [u \in Users |-> <<>>], db |-> <<>>],
             after |-> NoCall]

DoAdd(user_id, text, infer, fx, rx) ==
  \E r \in {Memory_add(State, text, user_id, infer, fx, rx)} :
     /\ vector_store' = r.st.fs
     /\ short_term' = r.st.stm
     /\ db' = r.st.history
     /\ uuid' = r.st.uuid
     /\ clock' = r.st.clock
     /\ inferred' = IF infer THEN inferred + 1 ELSE inferred
     /\ UNCHANGED <<threads, client>>
     /\ last' = [op |-> "add", user_id |-> user_id, text |-> text, infer |-> infer,
                 limit |-> 0, threshold |-> 0, fx |-> fx, rx |-> rx,
                 facts |-> r.facts, existing |-> r.existing, actions |-> r.actions,
                 results |-> r.results, items |-> <<>>, llm_calls |-> r.llm_calls,
                 probes |-> r.probes, pre |-> Snapshot, after |-> NoCall]

\* add(text, user_id=u, infer=False)
AddVerbatim ==
  /\ AddsSoFar < MaxAdds
  /\ \E u \in Users, t \in MsgTexts : DoAdd(u, t, FALSE, NoFx, NoRx)

\* add(text, user_id=u, infer=True)
AddInfer ==
  /\ AddsSoFar < MaxAdds
  /\ inferred < MaxInfer
  /\ \E u \in Users, t \in MsgTexts, fx \in FactResponses :
       IF ParseFacts(fx) = <<>>
       THEN DoAdd(u, t, TRUE, fx, NoRx)
       ELSE \E rx \in ReconResponses(StoredIds(vector_store) \cup {GhostId}) :
              DoAdd(u, t, TRUE, fx, rx)

\* variant: the query is also appended to the user's short-term buffer
Search_remembers_query ==
  \E u \in Users, q \in Texts, a \in SearchArgs :
    /\ last' = [op |-> "search", user_id |-> u, text |-> q, infer |-> FALSE,
                limit |-> a[1], threshold |-> a[2], fx |-> NoFx, rx |-> NoRx,
                facts |-> <<>>, existing |-> <<>>, actions |-> <<>>,
                results |-> <<>>, items |-> Memory_search(State, q, u, a[1], a[2]),
                llm_calls |-> 0, probes |-> <<>>, pre |-> Snapshot,
                after |-> Summary]
    /\ short_term' = IF AddsSoFar < MaxAdds
                     THEN STM_add(short_term, u, q, embed(q, "search"), clock)
                     ELSE short_term
    /\ UNCHANGED <<vector_store, db, uuid, clock, inferred, threads, client>>

\* search(query, user_id=u, limit, ltm_threshold)
Search ==
  \E u \in Users, q \in Texts, a \in SearchArgs :
    /\ last' = [op |-> "search", user_id |-> u, text |-> q, infer |-> FALSE,
                limit |-> a[1], threshold |-> a[2], fx |-> NoFx, rx |-> NoRx,
                facts |-> <<>>, existing |-> <<>>, actions |-> <<>>,
                results |-> <<>>, items |-> Memory_search(State, q, u, a[1], a[2]),
                llm_calls |-> 0, probes |-> <<>>, pre |-> Snapshot,
                after |-> Summary]
    /\ UNCHANGED <<vector_store, short_term, db, uuid, clock, inferred, threads, client>>

DoReset(op) ==
  LET st1 == Memory_reset(State)
  IN /\ vector_store' = st1.fs
     /\ short_term' = st1.stm
     /\ db' = st1.history
     /\ last' = [op |-> op, user_id |-> "-", text |-> "-", infer |-> FALSE,
                 limit |-> 0, threshold |-> 0, fx |-> NoFx, rx |-> NoRx,
                 facts |-> <<>>, existing |-> <<>>, actions |-> <<>>,
                 results |-> <<>>, items |-> <<>>, llm_calls |-> 0,
                 probes |-> <<>>, pre |-> Snapshot, after |-> NoCall]
     /\ UNCHANGED <<uuid, clock, inferred, threads, client>>

\* Memory.reset()
Reset == DoReset("reset")

\* MemoryClient.reset_memory(): self.memory.reset()
ClientReset == DoReset("reset_memory")

Next == AddVerbatim \/ AddInfer \/ Search \/ Reset \/ ClientReset

Spec == Init /\ [][Next]_vars

\* ------------------------------------------------------------------------
\*  SpecSearch: one search, with any arguments, on an engine that has served
\*  a list of add calls: some by user A, then none, nine or ten by user B
\*  (one short of, and exactly, the KNN limit of search), then some more by A.
\* ------------------------------------------------------------------------
NoFacts == [kind |-> "parsed", facts |-> <<>>]

RECURSIVE AfterAdds(_, _)
AfterAdds(st, calls) ==
  IF calls = <<>> THEN st
  ELSE LET c == Head(calls)
       IN AfterAdds(Memory_add(st, c.text, c.user_id, c.infer, NoFacts, NoRx).st,
                    Tail(calls))

Block(u, t, infer, n) == [i \in 1..n |-> [user_id |-> u, text |-> t, infer |-> infer]]

AddLists ==
  {[i \in 1..Len(h) |-> [user_id |-> "A", text |-> h[i], infer |-> FALSE]]
     \o Block("B", "a", FALSE, nb) \o Block("A", t, inf, na) :
       h \in SeqsUpTo(Texts, MaxHead),
       nb \in {0, SEARCH_KNN_LIMIT - 1, SEARCH_KNN_LIMIT},
       t \in MsgTexts, inf \in BOOLEAN, na \in 0..MaxTail}

NewEngine ==
  [fs |-> NewStore,
   stm |-> [u \in Users |-> <<>>], history |-> <<>>, uuid |-> 0, clock |-> 0]

\* an engine that has served one of the lists of add calls
EngineAfter(lists) ==
  \E calls \in lists :
    \E st \in {AfterAdds(NewEngine, calls)} :
      /\ vector_store = st.fs
      /\ short_term = st.stm
      /\ db = st.history
      /\ uuid = st.uuid
      /\ clock = st.clock
      /\ inferred = 0
      /\ threads = <<>>
      /\ client = NoClient
      /\ last = [op |-> "init", user_id |-> "-", text |-> "-", infer |-> FALSE,
                 limit |-> 0, threshold |-> 0, fx |-> NoFx, rx |-> NoRx,
                 facts |-> <<>>, existing |-> <<>>, actions |-> <<>>,
                 results |-> <<>>, items |-> <<>>, llm_calls |-> 0, probes |-> <<>>,
                 pre |-> [vector_store |-> st.fs, short_term |-> st.stm,
                          db |-> st.history],
                 after |-> NoCall]

InitSearch == EngineAfter(AddLists)

\* search(query, user_id=u, limit, ltm_threshold), any arguments
WideSearch ==
  /\ last.op = "init"
  /\ \E u \in Users, q \in Texts, limit \in WideLimits, th \in WideThresholds :
       last' = [op |-> "search", user_id |-> u, text |-> q, infer |-> FALSE,
                limit |-> limit, threshold |-> th, fx |-> NoFx, rx |-> NoRx,
                facts |-> <<>>, existing |-> <<>>, actions |-> <<>>,
                results |-> <<>>, items |-> Memory_search(State, q, u, limit, th),
                llm_calls |-> 0, probes |-> <<>>, pre |-> Snapshot,
                after |-> NoCall]
  /\ UNCHANGED <<vector_store, short_term, db, uuid, clock, inferred, threads, client>>

NextSearch == WideSearch

SpecSearch == InitSearch /\ [][NextSearch]_vars

\* ------------------------------------------------------------------------
\*  SpecRag: RAGPipeline.query and RAGPipeline.stream_query on an engine
\*  that has served a short list of add calls.  stream_query is a generator: the
\*  call creates it, every next() of the consumer runs it up to its next
\*  yield, and the consumer may close it at any point.
\* ------------------------------------------------------------------------
MaxTokens == 2

RAG_TOP_K == 5
RAG_LTM_THRESHOLD == 75

\* the chunks the generator's streamed answer may consist of
LlmStreams == SeqsUpTo({"tok"}, MaxTokens)

RagOps == {"query", "stream_query", "next", "close"}

RagLast(op, u, q, items, tokens, messages) ==
  [op |-> op, user_id |-> u, text |-> q, items |-> items, tokens |-> tokens,
   messages |-> messages, pre |-> Snapshot]

\* _build_context: the sources list, one {id, text} per retrieved item
build_context(results) ==
  [i \in 1..Len(results) |-> [id |-> results[i].id, text |-> results[i].memory]]

\* _build_context: the context block, one line "[idx] text" per retrieved item
context_block(results) == [i \in 1..Len(results) |-> <<i, results[i].memory>>]

CITATION_SYSTEM_PROMPT == "_CITATION_SYSTEM_PROMPT"

\* the message list _ask_llm hands the generator; a content is the sequence
\* of the parts its f-string joins
ask_llm_messages(question, context) ==
  <<[role |-> "system", content |-> <<CITATION_SYSTEM_PROMPT>>],
    [role |-> "system", content |-> <<"Context:\n", context>>],
    [role |-> "user", content |-> <<question>>]>>

\* the message list stream_query hands the generator's stream_response
stream_messages(query, context) ==
  <<[role |-> "system", content |-> <<CITATION_SYSTEM_PROMPT>>],
    [role |-> "user", content |-> <<"Context:\n", context, "\n\nQ: ", query>>]>>

\* variant: the question is stored before it is answered, as
\* MemoryClient.query_rag does with memory.add(prompt, infer=True)
RagQuery_reingests ==
  /\ threads = <<>>
  /\ \E u \in Users, q \in Texts :
       \E r \in {Memory_add(State, q, u, TRUE, NoFacts, NoRx)} :
         /\ \E retrieved \in {Memory_search(r.st, q, u, RAG_TOP_K,
                                             RAG_LTM_THRESHOLD)} :
              last' = RagLast("query", u, q, build_context(retrieved), 0,
                              ask_llm_messages(q, context_block(retrieved)))
         /\ vector_store' = r.st.fs
         /\ short_term' = r.st.stm
         /\ db' = r.st.history
         /\ uuid' = r.st.uuid
         /\ clock' = r.st.clock
         /\ UNCHANGED <<inferred, threads, client>>

\* RAGPipeline.query(question, user_id=u): search, then one generator call
RagQuery ==
  /\ threads = <<>>
  /\ \E u \in Users, q \in Texts :
       /\ \E retrieved \in {Memory_search(State, q, u, RAG_TOP_K,
                                           RAG_LTM_THRESHOLD)} :
            last' = RagLast("query", u, q, build_context(retrieved), 0,
                            ask_llm_messages(q, context_block(retrieved)))
       /\ UNCHANGED <<vector_store, short_term, db, uuid, clock, inferred, threads, client>>

\* RAGPipeline.stream_query(query, user_id): creates the generator; none of
\* its body has run yet
RagStreamQuery ==
  /\ threads = <<>>
  /\ \E u \in Users, q \in Texts :
       /\ threads' = <<[user_id |-> u, query |-> q, pc |-> "created",
                        retrieved |-> <<>>, chat |-> <<>>, yielded |-> 0]>>
       /\ last' = RagLast("stream_query", u, q, <<>>, 0, <<>>)
  /\ UNCHANGED <<vector_store, short_term, db, uuid, clock, inferred, client>>

\* next() on the generator: the first one runs the search and opens the
\* generator's stream; each one yields the next chunk, or ends the generator
\* when the stream is exhausted
RagStreamNext ==
  /\ threads # <<>>
  /\ LET g == threads[1]
     IN \E retrieved \in {IF g.pc = "created"
                          THEN Memory_search(State, g.query, g.user_id, RAG_TOP_K,
                                             RAG_LTM_THRESHOLD)
                          ELSE g.retrieved} :
        \E chat \in (IF g.pc = "created" THEN LlmStreams ELSE {g.chat}) :
          /\ threads' = IF chat = <<>> THEN <<>>
                        ELSE <<[g EXCEPT !.pc = "streaming", !.retrieved = retrieved,
                                         !.chat = Tail(chat),
                                         !.yielded = g.yielded + 1]>>
          /\ last' = RagLast("next", g.user_id, g.query, build_context(retrieved),
                             IF chat = <<>> THEN g.yielded ELSE g.yielded + 1,
                             stream_messages(g.query, context_block(retrieved)))
  /\ UNCHANGED <<vector_store, short_term, db, uuid, clock, inferred, client>>

\* the consumer stops: the generator is closed where it stands
RagStreamClose ==
  /\ threads # <<>>
  /\ LET g == threads[1]
     IN last' = RagLast("close", g.user_id, g.query, build_context(g.retrieved),
                        g.yielded,
                        IF g.pc = "created" THEN <<>>
                        ELSE stream_messages(g.query, context_block(g.retrieved)))
  /\ threads' = <<>>
  /\ UNCHANGED <<vector_store, short_term, db, uuid, clock, inferred, client>>

\* the add calls served before: some by user A, none or one by user B, then
\* none or one more by A, verbatim or inferred
RagAddLists ==
  {[i \in 1..Len(h) |-> [user_id |-> "A", text |-> h[i], infer |-> FALSE]]
     \o Block("B", "a", FALSE, nb) \o Block("A", t, inf, na) :
       h \in SeqsUpTo(Texts, MaxHead), nb \in {0, 1},
       t \in MsgTexts, inf \in BOOLEAN, na \in {0, 1}}

InitRag == EngineAfter(RagAddLists)

NextRag == RagQuery \/ RagStreamQuery \/ RagStreamNext \/ RagStreamClose

SpecRag == InitRag /\ [][NextRag]_vars


\* ------------------------------------------------------------------------
\*  SpecFaults: add calls on a new engine, one of which may end in a failure
\*  of the embedder or the generator.
\* ------------------------------------------------------------------------
\* add(text, user_id=u, infer) during which an embedder or generator call raises
AddRaises ==
  /\ AddsSoFar < MaxAdds
  /\ inferred < MaxInfer
  /\ \E u \in Users, t \in MsgTexts, infer \in BOOLEAN, fx \in FactResponses :
       \E rx \in (IF infer /\ ParseFacts(fx) # <<>>
                  THEN ReconResponses(StoredIds(vector_store) \cup {GhostId})
                  ELSE {NoRx}) :
         \E point \in FailurePoints(infer, ParseFacts(fx),
                                    ParseActions(rx, ParseFacts(fx))) :
           \E st1 \in {Memory_add_raises(State, t, u, infer, fx, rx, point)} :
             /\ (~infer => fx = NoFacts)
             /\ (point[1] \in {"embed_message", "extract_facts"} => fx = NoFacts)
             /\ (point[1] \in {"embed_message", "extract_facts", "embed_fact",
                               "reconcile"} => rx.actions = <<>> /\ rx.kind # "no_memory_key")
             /\ vector_store' = st1.fs
             /\ short_term' = st1.stm
             /\ db' = st1.history
             /\ uuid' = st1.uuid
             /\ clock' = st1.clock
             /\ inferred' = IF infer THEN inferred + 1 ELSE inferred
             /\ UNCHANGED <<threads, client>>
             /\ last' = [op |-> "add_raised", user_id |-> u, text |-> t,
                         infer |-> infer, fx |-> fx, rx |-> rx, point |-> point,
                         pre |-> Snapshot]

NextFaults == AddVerbatim \/ AddRaises

SpecFaults == Init /\ [][NextFaults]_vars

\* ------------------------------------------------------------------------
\*  SpecInvalid: add calls on a new engine, one of which receives a
\*  reconciliation answer that parses and has a "memory" key but is not a
\*  list of complete actions.  An action is the dict the answer holds: a
\*  record with the keys it has.  last = [op, user_id, text, fx, memory,
\*  raised, results, pre].
\* ------------------------------------------------------------------------
\* the keys the loop of add reads from an action of event ev
NeededKeys(ev) ==
  IF ev = "ADD" THEN {"event", "text"} ELSE {"event", "text", "id"}

Complete(act) ==
  "event" \in DOMAIN act /\ NeededKeys(act.event) \subseteq DOMAIN act

\* the value under "memory": a list of dicts; a value that cannot be iterated
\* (None, a number); or n things that are not dicts (a string of n
\* characters, a dict of n keys, a list of n strings)
InvalidMemories(ids) ==
  LET whole == {[event |-> "ADD", text |-> "b"]}
                 \cup {[event |-> "DELETE", id |-> i, text |-> "a"] : i \in ids}
      broken == {[id |-> GhostId, text |-> "b"],
                 [event |-> "ADD", id |-> GhostId],
                 [event |-> "NONE", id |-> GhostId]}
                  \cup {[event |-> "UPDATE", text |-> "b"]}
                  \cup {[event |-> "DELETE", text |-> "a"]}
                  \cup {[event |-> "DELETE", id |-> i] : i \in ids}
  IN {[kind |-> "list", items |-> a, n |-> Len(a)] :
        a \in {s \in SeqsUpTo(whole \cup broken, MaxActs) :
                 \E k \in 1..Len(s) : s[k] \in broken}}
       \cup {[kind |-> "not_iterable", items |-> <<>>, n |-> 0]}
       \cup {[kind |-> "not_dicts", items |-> <<>>, n |-> n] : n \in 0..1}

\* the loop of add over such a list: [st, results, raised].  A missing key
\* raises KeyError where the loop reads it: "event" first; "text" before an
\* ADD or UPDATE is applied; "id" before an UPDATE or DELETE is applied;
\* the "text" of a DELETE after the record was deleted and the row logged.
RECURSIVE ApplyRaw(_, _, _, _)
ApplyRaw(st, acts, user_id, results) ==
  IF acts = <<>> THEN [st |-> st, results |-> results, raised |-> FALSE]
  ELSE
    LET act == Head(acts)
    IN IF Complete(act) THEN
         LET full == [id |-> IF "id" \in DOMAIN act THEN act.id ELSE GhostId,
                      text |-> act.text, event |-> act.event]
             r == ApplyActions(st, <<full>>, user_id, results, <<>>)
         IN ApplyRaw(r.st, Tail(acts), user_id, r.results)
       ELSE IF /\ "event" \in DOMAIN act /\ act.event = "DELETE"
               /\ "id" \in DOMAIN act
       THEN [st |-> Memory_delete_memory(st, act.id), results |-> results,
             raised |-> TRUE]
       ELSE [st |-> st, results |-> results, raised |-> TRUE]

\* Memory.add(message, user_id, infer=True) when the facts are not empty and
\* the reconciliation answer carries `memory` under its "memory" key
Memory_add_invalid(st, message, user_id, fx, memory) ==
  LET now == st.clock + 1
      st1 == [st EXCEPT !.stm = STM_add(st.stm, user_id, message,
                                        embed(message, "add"), now),
                        !.clock = now]
  IN IF memory.kind = "list" THEN ApplyRaw(st1, memory.items, user_id, <<>>)
     ELSE [st |-> st1, results |-> <<>>,
           raised |-> (memory.kind = "not_iterable" \/ memory.n > 0)]

AddInvalid ==
  /\ AddsSoFar < MaxAdds
  /\ inferred < MaxInfer
  /\ \E u \in Users, t \in MsgTexts :
     \E fx \in {f \in FactResponses : ParseFacts(f) # <<>>} :
     \E memory \in InvalidMemories(StoredIds(vector_store) \cup {GhostId}) :
       \E r \in {Memory_add_invalid(State, t, u, fx, memory)} :
         /\ vector_store' = r.st.fs
         /\ short_term' = r.st.stm
         /\ db' = r.st.history
         /\ uuid' = r.st.uuid
         /\ clock' = r.st.clock
         /\ inferred' = inferred + 1
         /\ UNCHANGED <<threads, client>>
         /\ last' = [op |-> "add_invalid", user_id |-> u, text |-> t, fx |-> fx,
                     memory |-> memory, raised |-> r.raised,
                     results |-> r.results, pre |-> State]

NextInvalid == AddVerbatim \/ AddInvalid

SpecInvalid == Init /\ [][NextInvalid]_vars



\* ------------------------------------------------------------------------
\*  SpecStm: the short-term memory alone.  User A's buffer starts empty, one
\*  short of full or full, user B's empty or with one entry; then add, clear
\*  and recent are called.  last = [op, user_id, text, limit, items, n, pre],
\*  n counting the add and clear calls made.
\* ------------------------------------------------------------------------
StmFills == {0, STM_MAX_ITEMS - 1, STM_MAX_ITEMS}
RecentLimits == {0, 1, 2, STM_MAX_ITEMS - 1, STM_MAX_ITEMS, STM_MAX_ITEMS + 1}

\* the buffers after k add calls for user u, the texts alternating
RECURSIVE StmFilled(_, _, _, _)
StmFilled(stm, u, k, now) ==
  IF k = 0 THEN stm
  ELSE LET t == IF k % 2 = 0 THEN "a" ELSE "c"
       IN StmFilled(STM_add(stm, u, t, embed(t, "add"), now + 1), u, k - 1, now + 1)

InitStm ==
  /\ \E na \in StmFills, nb \in {0, 1} :
       /\ short_term = StmFilled(StmFilled([u \in Users |-> <<>>], "A", na, 0),
                                 "B", nb, na)
       /\ clock = na + nb
       /\ last = [op |-> "init", user_id |-> "-", text |-> "-", limit |-> 0,
                  items |-> <<>>, n |-> 0, pre |-> [short_term |-> short_term]]
  /\ vector_store = NewStore
  /\ db = <<>>
  /\ uuid = 0
  /\ inferred = 0
  /\ threads = <<>>
  /\ client = NoClient

\* short_term.add(user_id, text, embedding)
StmAdd ==
  /\ last.n < MaxStmCalls
  /\ \E u \in Users, t \in MsgTexts :
       /\ short_term' = STM_add(short_term, u, t, embed(t, "add"), clock + 1)
       /\ clock' = clock + 1
       /\ last' = [op |-> "stm_add", user_id |-> u, text |-> t, limit |-> 0,
                   items |-> <<>>, n |-> last.n + 1,
                   pre |-> [short_term |-> short_term]]
  /\ UNCHANGED <<vector_store, db, uuid, inferred, threads, client>>

\* short_term.clear(user_id)
StmClear ==
  /\ last.n < MaxStmCalls
  /\ \E u \in Users \cup {AllUsers} :
       /\ short_term' = STM_clear(short_term, u)
       /\ last' = [op |-> "stm_clear", user_id |-> u, text |-> "-", limit |-> 0,
                   items |-> <<>>, n |-> last.n + 1,
                   pre |-> [short_term |-> short_term]]
  /\ UNCHANGED <<vector_store, db, uuid, clock, inferred, threads, client>>

\* short_term.recent(user_id, limit)
StmRecent ==
  /\ \E u \in Users, k \in RecentLimits :
       last' = [op |-> "stm_recent", user_id |-> u, text |-> "-", limit |-> k,
                items |-> STM_recent(short_term, u, k), n |-> last.n,
                pre |-> [short_term |-> short_term]]
  /\ UNCHANGED <<vector_store, short_term, db, uuid, clock, inferred, threads, client>>

NextStm == StmAdd \/ StmClear \/ StmRecent

SpecStm == InitStm /\ [][NextStm]_vars

\* ------------------------------------------------------------------------
\*  SpecStore: the FAISS store alone, under metric IP or L2, driven through
\*  its own interface: insert, update, delete, reset, search, a teardown
\*  followed by a new construction on the same path, and a process stop
\*  inside a mutation followed by a new construction.
\*  last = [op, call, q, k, filters, raised, hits, n, clean, pre, post]:
\*  n counts the mutating calls, clean says that every call so far returned
\*  and no process stop happened, pre is the store before the call, post the
\*  store the (completed) call leaves.
\* ------------------------------------------------------------------------
StoreIds == {<<"id", 1>>, <<"id", 2>>}
DictId == <<"dict", 1>>          \* a dict passed where the id belongs
StoreRecords == {<<"A", "a">>, <<"B", "b">>, <<"A", "c">>}   \* <<user_id, text>>
StoreKs == {1, 3}
StoreFilters == {{}, {<<"user_id", "A">>}, {<<"user_id", "B">>}}

StorePayload(r) == Payload(r[1], r[2], embed(r[2], "add"), NoneTime, NoneTime)
StoreVec(r) == embed(r[2], "add")

NoArgs == [op |-> "none", id |-> GhostId, vectors |-> <<>>, payloads |-> <<>>,
           ids |-> <<>>]

\* insert calls: one row; two rows; two vectors with one id, or with one
\* payload; ids=None; a dict as the id of the second row or of the only row
\* (the positional call insert([vec], [mid], [meta]) binds meta to ids); no
\* vector; a None vector
TwoVecs == <<StoreVec(<<"A", "a">>), StoreVec(<<"B", "b">>)>>
TwoPayloads == <<StorePayload(<<"A", "a">>), StorePayload(<<"B", "b">>)>>
TwoIds == <<<<"id", 1>>, <<"id", 2>>>>

InsertCalls ==
  {[op |-> "insert", id |-> GhostId, vectors |-> <<StoreVec(r)>>,
    payloads |-> <<StorePayload(r)>>, ids |-> <<i>>] :
      r \in StoreRecords, i \in StoreIds}
  \cup
  {[op |-> "insert", id |-> GhostId, vectors |-> TwoVecs,
    payloads |-> x[1], ids |-> x[2]] :
      x \in {<<TwoPayloads, TwoIds>>,
             <<TwoPayloads, <<TwoIds[1]>>>>,
             <<<<TwoPayloads[1]>>, TwoIds>>,
             <<TwoPayloads, <<>>>>,
             <<TwoPayloads, <<TwoIds[1], DictId>>>>}}
  \cup
  {[op |-> "insert", id |-> GhostId, vectors |-> x[1],
    payloads |-> <<TwoPayloads[1]>>, ids |-> x[2]] :
      x \in {<<<<TwoVecs[1]>>, <<DictId>>>>,
             <<<<>>, <<TwoIds[1]>>>>,
             <<<<NoneVec>>, <<TwoIds[1]>>>>}}

\* update calls: vector and payload each given or None
UpdateCalls ==
  {[op |-> "update", id |-> i, vectors |-> <<v>>, payloads |-> <<pl>>,
    ids |-> <<i>>] :
      i \in StoreIds,
      v \in {NoneVec, StoreVec(<<"A", "c">>)},
      pl \in {NonePayload, StorePayload(<<"A", "c">>)}}

DeleteCalls == {[NoArgs EXCEPT !.op = "delete", !.id = i] : i \in StoreIds}

ResetCalls == {[NoArgs EXCEPT !.op = "reset"]}

\* the call c made on fs: [raised, fs]
Apply(fs, c, fresh) ==
  CASE c.op = "insert" ->
         LET r == FAISS_insert_list(fs, c.vectors, c.payloads, c.ids, fresh)
         IN [raised |-> r.raised, fs |-> r.fs]
    [] c.op = "update" ->
         LET r == FAISS_update_call(fs, c.id, c.vectors[1], c.payloads[1])
         IN [raised |-> r.raised, fs |-> r.fs]
    [] c.op = "delete" -> [raised |-> FALSE, fs |-> FAISS_delete(fs, c.id)]
    [] c.op = "reset" -> [raised |-> FALSE, fs |-> FAISS_reset(fs)]

InsertStops(fs, vectors, payloads, ids, fresh) ==
  LET r == InsertRows(fs, vectors, payloads, ids, fresh)
  IN IF r.raised THEN {fs.disk} ELSE SaveStops(r.fs)

DeleteStops(fs, id) ==
  IF ~HasKey(fs.payloads, id) THEN {fs.disk} ELSE SaveStops(DeleteRow(fs, id))

\* the disks a process stop inside the call c can leave behind
StopDisks(fs, c, fresh) ==
  CASE c.op = "insert" -> InsertStops(fs, c.vectors, c.payloads, c.ids, fresh)
    [] c.op = "delete" -> DeleteStops(fs, c.id)
    [] c.op = "update" ->
         DeleteStops(fs, c.id)
           \cup InsertStops(FAISS_delete(fs, c.id), c.vectors,
                            <<PayloadOrEmpty(c.payloads[1])>>, c.ids, fresh)
    [] c.op = "reset" ->
         {fs.disk, [fs.disk EXCEPT !.index = NoFile], NoDisk}
           \cup SaveStops(ResetRows(fs))

\* uuid4 values a call draws
Drawn(c) == IF c.op = "insert" /\ c.ids = <<>> THEN Len(c.vectors) ELSE 0

\* a construction raised: there is no store object to call
Down == last.op \in {"reopen", "stop"} /\ last.raised

InitStore ==
  /\ \E m \in Metrics : vector_store = FAISS_init(m, NoDisk).fs
  /\ short_term = [u \in Users |-> <<>>]
  /\ db = <<>>
  /\ uuid = 0
  /\ clock = 0
  /\ inferred = 0
  /\ threads = <<>>
  /\ client = NoClient
  /\ last = [op |-> "init", call |-> NoArgs, q |-> <<0, 0>>, k |-> 0,
             filters |-> {}, raised |-> FALSE, hits |-> <<>>, n |-> 0,
             clean |-> TRUE, pre |-> vector_store, post |-> vector_store]

Mutate(calls) ==
  /\ ~Down
  /\ last.n < MaxStoreCalls
  /\ \E c \in calls :
       \E r \in {Apply(vector_store, c, uuid)} :
         /\ vector_store' = r.fs
         /\ uuid' = uuid + Drawn(c)
         /\ last' = [op |-> c.op, call |-> c, q |-> <<0, 0>>, k |-> 0,
                     filters |-> {}, raised |-> r.raised, hits |-> <<>>,
                     n |-> last.n + 1, clean |-> last.clean /\ ~r.raised,
                     pre |-> vector_store, post |-> r.fs]
  /\ UNCHANGED <<short_term, db, clock, inferred, threads, client>>

StoreInsert == Mutate(InsertCalls)
StoreUpdate == Mutate(UpdateCalls)
StoreDelete == Mutate(DeleteCalls)
StoreReset == Mutate(ResetCalls)

\* search(query, vectors, limit, filters)
StoreSearch ==
  /\ ~Down
  /\ \E t \in FactTexts, k \in StoreKs, f \in StoreFilters :
       \E hits \in {FAISS_search(vector_store, embed(t, "search"), k, f)} :
         last' = [op |-> "search", call |-> NoArgs, q |-> embed(t, "search"),
                  k |-> k, filters |-> f, raised |-> SearchRaised(hits),
                  hits |-> IF SearchRaised(hits) THEN <<>> ELSE hits,
                  n |-> last.n, clean |-> last.clean /\ ~SearchRaised(hits),
                  pre |-> vector_store, post |-> vector_store]
  /\ UNCHANGED <<vector_store, short_term, db, uuid, clock, inferred, threads, client>>

\* the store object is discarded and a new one constructed on the same path
StoreReopen ==
  /\ \E r \in {FAISS_init(vector_store.metric_type, vector_store.disk)} :
       /\ vector_store' = r.fs
       /\ last' = [op |-> "reopen", call |-> NoArgs, q |-> <<0, 0>>, k |-> 0,
                   filters |-> {}, raised |-> r.raised, hits |-> <<>>,
                   n |-> last.n, clean |-> last.clean /\ ~r.raised,
                   pre |-> vector_store, post |-> r.fs]
  /\ UNCHANGED <<short_term, db, uuid, clock, inferred, threads, client>>

\* the process stops inside a mutating call; a new process constructs the
\* store from what is on disk
StoreStop ==
  /\ ~Down
  /\ last.n < MaxStoreCalls
  /\ \E c \in InsertCalls \cup UpdateCalls \cup DeleteCalls \cup ResetCalls :
       \E d \in StopDisks(vector_store, c, uuid) :
         \E r \in {FAISS_init(vector_store.metric_type, d)} :
           /\ vector_store' = r.fs
           /\ uuid' = uuid + Drawn(c)
           /\ last' = [op |-> "stop", call |-> c, q |-> <<0, 0>>, k |-> 0,
                       filters |-> {}, raised |-> r.raised, hits |-> <<>>,
                       n |-> last.n + 1, clean |-> FALSE,
                       pre |-> vector_store,
                       post |-> Apply(vector_store, c, uuid).fs]
  /\ UNCHANGED <<short_term, db, clock, inferred, threads, client>>

NextStore ==
  StoreInsert \/ StoreUpdate \/ StoreDelete \/ StoreReset \/ StoreSearch
    \/ StoreReopen \/ StoreStop

SpecStore == InitStore /\ [][NextStore]_vars

\* ------------------------------------------------------------------------
\*  SpecThreads: two calls on one FAISS store running on two threads, as
\*  the request handlers of the server and the worker threads of
\*  AsyncMemory run them; the store takes no lock.  A thread is
\*  [call, pc, idx, rows, keys, hits, raised]: every step runs the statement
\*  at pc of one thread, the others being its locals.  faiss releases the
\*  interpreter lock inside index.add, remove_ids and search, so calls on the
\*  index also overlap; the steps here take each of them as a whole, before
\*  or after the other thread's.
\*  last = [op, thread, start]: the statement run, by which thread, and the
\*  store both calls started on.
\* ------------------------------------------------------------------------
ThreadIds == {1, 2}

ThreadCall(op, id, r) ==
  [op |-> op, id |-> id, vec |-> StoreVec(r), pl |-> StorePayload(r),
   q |-> <<0, 0>>, k |-> 0, filters |-> {}]

\* the mutation thread i may run: an insert under an id of its own, the
\* delete or update of a stored id, a reset
ThreadMutations(i) ==
  {ThreadCall("insert", <<"id", 2 + i>>,
              IF i = 1 THEN <<"A", "c">> ELSE <<"B", "b">>),
   ThreadCall("delete", <<"id", i>>, <<"A", "a">>),
   ThreadCall("update", <<"id", 1>>, <<"A", "c">>),
   ThreadCall("reset", GhostId, <<"A", "a">>)}

ThreadSearches ==
  {[ThreadCall("search", GhostId, <<"A", "a">>) EXCEPT
      !.q = embed(t, "search"), !.k = 3, !.filters = f] :
        t \in FactTexts, f \in {{}, {<<"user_id", "B">>}}}

\* the first statement of a call
FirstPc(c) ==
  CASE c.op = "insert" -> "add"
    [] c.op \in {"delete", "update"} -> "check"
    [] c.op = "reset" -> "index_reset"
    [] c.op = "search" -> "knn"

\* where delete returns to: update goes on with its insert
AfterDelete(c) == IF c.op = "update" THEN "add" ELSE "done"

NewThread(c) ==
  [call |-> c, pc |-> FirstPc(c), idx |-> 0, rows |-> <<>>, keys |-> <<>>,
   hits |-> <<>>, raised |-> FALSE]

\* the loop of search over the rows the KNN reported, with the list of keys
\* taken before it: self._payloads[_id] raises KeyError for a key that has
\* left the dict since
RECURSIVE ScanHits(_, _, _, _)
ScanHits(pls, rows, keys, filters) ==
  IF rows = <<>> THEN [raised |-> FALSE, hits |-> <<>>]
  ELSE LET r == Head(rows)
           rest == ScanHits(pls, Tail(rows), keys, filters)
       IN IF r.idx > Len(keys) THEN rest
          ELSE IF ~HasKey(pls, keys[r.idx]) THEN [raised |-> TRUE, hits |-> <<>>]
          ELSE LET pl == pls[KeyPos(pls, keys[r.idx])].pl
               IN IF Rejected(pl, filters) THEN rest
                  ELSE [raised |-> rest.raised,
                        hits |-> IF rest.raised THEN <<>>
                                 ELSE <<[id |-> keys[r.idx], payload |-> pl,
                                         score |-> r.dist]>> \o rest.hits]

\* the statement at t.pc run on the store fs: [fs, t]
Exec(fs, t) ==
  LET c == t.call
      goto(l) == [t EXCEPT !.pc = l]
      raise == [t EXCEPT !.pc = "done", !.raised = TRUE]
  IN CASE t.pc = "add" ->            \* self._index.add(vecs)
            [fs |-> [fs EXCEPT !.index = Append(fs.index, c.vec)], t |-> goto("set")]
       [] t.pc = "set" ->            \* self._payloads[_id] = pl
            [fs |-> [fs EXCEPT !.payloads = DictSet(fs.payloads, c.id, c.pl)],
             t |-> goto("write_index")]
       [] t.pc = "write_index" ->    \* _save, first file
            [fs |-> WriteIndex(fs), t |-> goto("write_payloads")]
       [] t.pc = "write_payloads" -> \* _save, second file
            [fs |-> WritePayloads(fs), t |-> goto("done")]
       [] t.pc = "check" ->          \* if vector_id not in self._payloads: return
            [fs |-> fs,
             t |-> IF HasKey(fs.payloads, c.id) THEN goto("pos")
                   ELSE goto(AfterDelete(c))]
       [] t.pc = "pos" ->            \* idx = list(keys).index(vector_id)
            [fs |-> fs,
             t |-> IF HasKey(fs.payloads, c.id)
                   THEN [goto("remove") EXCEPT !.idx = KeyPos(fs.payloads, c.id)]
                   ELSE raise]
       [] t.pc = "remove" ->         \* self._index.remove_ids([idx])
            [fs |-> [fs EXCEPT !.index = IndexRemove(fs.index, t.idx)],
             t |-> goto("del")]
       [] t.pc = "del" ->            \* del self._payloads[vector_id]
            IF HasKey(fs.payloads, c.id)
            THEN [fs |-> [fs EXCEPT !.payloads =
                                      RemoveAt(fs.payloads, KeyPos(fs.payloads, c.id))],
                  t |-> goto("delete_write_index")]
            ELSE [fs |-> fs, t |-> raise]
       [] t.pc = "delete_write_index" ->
            [fs |-> WriteIndex(fs), t |-> goto("delete_write_payloads")]
       [] t.pc = "delete_write_payloads" ->
            [fs |-> WritePayloads(fs), t |-> goto(AfterDelete(c))]
       [] t.pc = "index_reset" ->    \* self._index.reset()
            [fs |-> [fs EXCEPT !.index = <<>>], t |-> goto("clear")]
       [] t.pc = "clear" ->          \* self._payloads.clear()
            [fs |-> [fs EXCEPT !.payloads = <<>>], t |-> goto("remove_index_file")]
       [] t.pc = "remove_index_file" ->
            [fs |-> [fs EXCEPT !.disk.index = NoFile],
             t |-> goto("remove_payload_file")]
       [] t.pc = "remove_payload_file" ->
            [fs |-> [fs EXCEPT !.disk.payloads = NoFile], t |-> goto("new_index")]
       [] t.pc = "new_index" ->      \* self._index = faiss.IndexFlat..(self.dim)
            [fs |-> [fs EXCEPT !.index = <<>>, !.index_kind = fs.metric_type],
             t |-> goto("write_index")]
       [] t.pc = "knn" ->            \* D, I = self._index.search(qvec, limit)
            [fs |-> fs,
             t |-> [goto("keys") EXCEPT !.rows =
                      LET I == IndexSearch(fs.index_kind, fs.index, c.q, c.k)
                      IN [n \in 1..Len(I) |->
                            [idx |-> I[n],
                             dist |-> Distance(fs.index_kind, c.q, fs.index[I[n]])]]]]
       [] t.pc = "keys" ->           \* keys = list(self._payloads.keys())
            [fs |-> fs,
             t |-> [goto("scan") EXCEPT !.keys =
                      [n \in 1..Len(fs.payloads) |-> fs.payloads[n].id]]]
       [] t.pc = "scan" ->           \* the loop building hits
            LET s == ScanHits(fs.payloads, t.rows, t.keys, c.filters)
            IN [fs |-> fs,
                t |-> IF s.raised THEN raise ELSE [goto("done") EXCEPT !.hits = s.hits]]

\* the call c run alone, start to end
Serial(fs, c) ==
  CASE c.op = "insert" -> FAISS_insert(fs, c.vec, c.pl, c.id)
    [] c.op = "delete" -> FAISS_delete(fs, c.id)
    [] c.op = "update" -> FAISS_update(fs, c.id, c.vec, c.pl)
    [] c.op = "reset" -> FAISS_reset(fs)
    [] c.op = "search" -> fs

\* the stores the two calls may start on: empty, one record, two records
StartStores ==
  LET s0 == NewStore
      s1 == FAISS_insert(s0, StoreVec(<<"A", "a">>), StorePayload(<<"A", "a">>),
                         <<"id", 1>>)
      s2 == FAISS_insert(s1, StoreVec(<<"B", "b">>), StorePayload(<<"B", "b">>),
                         <<"id", 2>>)
  IN {s0, s1, s2}

InitThreads ==
  /\ vector_store \in StartStores
  /\ short_term = [u \in Users |-> <<>>]
  /\ db = <<>>
  /\ uuid = 0
  /\ clock = 0
  /\ inferred = 0
  /\ client = NoClient
  /\ \E c1 \in ThreadMutations(1), c2 \in ThreadMutations(2) \cup ThreadSearches :
       threads = <<NewThread(c1), NewThread(c2)>>
  /\ last = [op |-> "init", thread |-> 0, start |-> vector_store]

\* thread i runs its next statement
ThreadStep(i) ==
  /\ threads[i].pc # "done"
  /\ \E r \in {Exec(vector_store, threads[i])} :
       /\ vector_store' = r.fs
       /\ threads' = [threads EXCEPT ![i] = r.t]
       /\ last' = [op |-> threads[i].pc, thread |-> i, start |-> last.start]
  /\ UNCHANGED <<short_term, db, uuid, clock, inferred, client>>

\* a step of the thread running the first handler's mutation
MutatorStep == ThreadStep(1)

\* a step of the thread running the second handler's call, a mutation or a search
OtherStep == ThreadStep(2)

NextThreads == MutatorStep \/ OtherStep

SpecThreads == InitThreads /\ [][NextThreads]_vars


\* ------------------------------------------------------------------------
\*  SpecAsync: one call of AsyncMemory.add, or of
\*  AsyncMemoryClient.summarize_procedural, on an engine in any of the
\*  states a short list of add calls leaves.
\*  last = [op, user_id, text, infer, fx, rx, raised, results, pre]: pre is
\*  the whole engine state the call started in.
\* ------------------------------------------------------------------------
\* what json.loads(remove_code_blocks(resp)) is handed by AsyncMemory.add:
\* asyncio.to_thread runs the `async def generate_response_async` in a
\* thread, which only creates a coroutine object; it is never awaited, so
\* the generator's answer never arrives
Unawaited(fx) == [kind |-> "coroutine", facts |-> <<>>]

\* AsyncMemory._create_memory: [st, mid, raised].  The positional call
\* insert([vec], [mid], [meta]) binds [mid] to payloads and [meta] to ids
AsyncMemory_create_memory(st, data, vec, user_id) ==
  LET mid == <<"uuid", st.uuid + 1>>
      now == st.clock + 1
      r == FAISS_insert_list(st.fs, <<vec>>, <<mid>>, <<DictId>>, 0)
      st1 == [st EXCEPT !.fs = r.fs, !.uuid = st.uuid + 1, !.clock = now]
  IN IF r.raised
     THEN [st |-> st1, mid |-> mid, raised |-> TRUE]
     ELSE [st |-> [st1 EXCEPT !.history =
                     add_history(st.history, mid, NoneText, data, "ADD", now,
                                 NoneTime, 0)],
           mid |-> mid, raised |-> FALSE]

\* the loop of AsyncMemory.add over the actions: [st, results, raised]
RECURSIVE AsyncApplyActions(_, _, _, _)
AsyncApplyActions(st, acts, user_id, results) ==
  IF acts = <<>> THEN [st |-> st, results |-> results, raised |-> FALSE]
  ELSE
    LET act == Head(acts)
        ev == act.event
    IN IF ev = "ADD" THEN
         LET r == AsyncMemory_create_memory(st, act.text, embed(act.text, "add"),
                                            user_id)
         IN IF r.raised THEN [st |-> r.st, results |-> <<>>, raised |-> TRUE]
            ELSE AsyncApplyActions(r.st, Tail(acts), user_id,
                   Append(results, [id |-> r.mid, memory |-> act.text,
                                    event |-> "ADD"]))
       ELSE IF ev = "UPDATE" THEN
         AsyncApplyActions(
           Memory_update_memory(st, act.id, act.text, embed(act.text, "update"),
                                user_id),
           Tail(acts), user_id,
           Append(results, [id |-> act.id, memory |-> act.text, event |-> "UPDATE",
                            previous_memory |-> NoneText]))
       ELSE IF ev = "DELETE" THEN
         AsyncApplyActions(Memory_delete_memory(st, act.id), Tail(acts), user_id,
           Append(results, [id |-> act.id, memory |-> act.text, event |-> "DELETE"]))
       ELSE
         AsyncApplyActions(st, Tail(acts), user_id,
           Append(results, [id |-> act.id, memory |-> act.text, event |-> "NONE"]))

\* AsyncMemory.add: [st, results, raised]
AsyncMemory_add(st, message, user_id, infer, fx, rx) ==
  LET msg_vec == embed(message, "add")
      now == st.clock + 1
      st1 == [st EXCEPT !.stm = STM_add(st.stm, user_id, message, msg_vec, now),
                        !.clock = now]
  IN IF ~infer THEN
       LET r == AsyncMemory_create_memory(st1, message, msg_vec, user_id)
       IN [st |-> r.st,
           results |-> IF r.raised THEN <<>>
                       ELSE <<[id |-> r.mid, memory |-> message, event |-> "ADD"]>>,
           raised |-> r.raised]
     ELSE
       LET facts == ParseFacts(Unawaited(fx))
       IN IF facts = <<>> THEN [st |-> st1, results |-> <<>>, raised |-> FALSE]
          ELSE AsyncApplyActions(st1, ParseActions(rx, facts), user_id, <<>>)

\* the reconciliation answers drawn here: one that does not parse, and one
\* that adds a memory
AsyncRecon ==
  {[kind |-> "invalid_json", actions |-> <<>>],
   [kind |-> "parsed",
    actions |-> <<[id |-> GhostId, text |-> "b", event |-> "ADD"]>>]}

\* await AsyncMemory.add(text, user_id=u, infer=...)
AsyncAdd ==
  /\ last.op = "init"
  /\ \E u \in Users, t \in MsgTexts, infer \in BOOLEAN, fx \in FactResponses :
       \E rx \in (IF infer /\ ParseFacts(fx) # <<>> THEN AsyncRecon ELSE {NoRx}) :
         \E r \in {AsyncMemory_add(State, t, u, infer, fx, rx)} :
           /\ (~infer => fx = NoFacts)
           /\ vector_store' = r.st.fs
           /\ short_term' = r.st.stm
           /\ db' = r.st.history
           /\ uuid' = r.st.uuid
           /\ clock' = r.st.clock
           /\ last' = [op |-> "async_add", user_id |-> u, text |-> t,
                       infer |-> infer, fx |-> fx, rx |-> rx, raised |-> r.raised,
                       results |-> r.results, pre |-> State]
  /\ UNCHANGED <<inferred, threads, client>>

\* await AsyncMemoryClient.summarize_procedural(messages, user_id=u): the
\* attribute lookup self.memory.add_procedural_memory raises AttributeError,
\* AsyncMemory having no such method
SummarizeProcedural ==
  /\ last.op = "init"
  /\ \E u \in Users, t \in MsgTexts :
       last' = [op |-> "summarize_procedural", user_id |-> u, text |-> t,
                infer |-> FALSE, fx |-> NoFx, rx |-> NoRx, raised |-> TRUE,
                results |-> <<>>, pre |-> State]
  /\ UNCHANGED <<vector_store, short_term, db, uuid, clock, inferred, threads, client>>

NextAsync == AsyncAdd \/ SummarizeProcedural

SpecAsync == InitRag /\ [][NextAsync]_vars

\* ------------------------------------------------------------------------
\*  SpecClient: an AsyncMemoryClient on a new engine, constructed with a
\*  cadence procedural_every_n and auto-summary on or off; add_message is
\*  awaited up to MaxMessages times.  last = [op, user_id, text, infer,
\*  raised, n, pre], n counting the calls made, pre the client before.
\* ------------------------------------------------------------------------
MaxMessages == 3

Cadences == {1, 2}

\* the methods class AsyncMemoryClient defines
AsyncMemoryClient_methods ==
  {"__init__", "add_message", "retrieve", "query_rag", "stream_rag",
   "reset_memory", "summarize_procedural", "get_all_memories",
   "delete_all_memories"}

\* AsyncMemoryClient.__init__: the two dicts start empty; a user without a
\* key reads as counter 0 (get(user_id, 0)) and log [] (setdefault)
AsyncMemoryClient_init(procedural_every_n, enable_auto_summary) ==
  [n |-> procedural_every_n, enabled |-> enable_auto_summary,
   msg_counter |-> [u \in Users |-> 0],
   chat_logs |-> [u \in Users |-> <<>>]]

\* add_message after memory.add has returned: count the message, log it,
\* and at the cadence attempt the summary.  The attempt is
\* self.add_procedural_memory(...): with no such method on the client the
\* lookup raises AttributeError, the except branch logs it, and the two
\* assignments that put counter and log back are skipped.
Counted(c, user_id, text) ==
  IF ~c.enabled THEN c
  ELSE
    LET c1 == [c EXCEPT !.msg_counter[user_id] = @ + 1,
                        !.chat_logs[user_id] =
                           Append(@, [role |-> "user", content |-> text])]
    IN IF c1.msg_counter[user_id] >= c1.n
       THEN IF "add_procedural_memory" \in AsyncMemoryClient_methods
            THEN [c1 EXCEPT !.msg_counter[user_id] = 0, !.chat_logs[user_id] = <<>>]
            ELSE c1
       ELSE c1

InitClient ==
  /\ vector_store = NewStore
  /\ short_term = [u \in Users |-> <<>>]
  /\ db = <<>>
  /\ uuid = 0
  /\ clock = 0
  /\ inferred = 0
  /\ threads = <<>>
  /\ \E n \in Cadences, e \in BOOLEAN : client = AsyncMemoryClient_init(n, e)
  /\ last = [op |-> "init", user_id |-> "-", text |-> "-", infer |-> FALSE,
             raised |-> FALSE, n |-> 0, pre |-> client]

\* await client.add_message(text, user_id=u, infer=...): memory.add first;
\* when it raises, the exception leaves add_message before anything is counted
ClientAddMessage ==
  /\ last.n < MaxMessages
  /\ \E u \in Users, t \in MsgTexts, infer \in BOOLEAN :
       \E r \in {AsyncMemory_add(State, t, u, infer, NoFacts, NoRx)} :
         /\ vector_store' = r.st.fs
         /\ short_term' = r.st.stm
         /\ db' = r.st.history
         /\ uuid' = r.st.uuid
         /\ clock' = r.st.clock
         /\ client' = IF r.raised THEN client ELSE Counted(client, u, t)
         /\ last' = [op |-> "add_message", user_id |-> u, text |-> t,
                     infer |-> infer, raised |-> r.raised, n |-> last.n + 1,
                     pre |-> client]
  /\ UNCHANGED <<inferred, threads>>

NextClient == ClientAddMessage

SpecClient == InitClient /\ [][NextClient]_vars



\* ------------------------------------------------------------------------
\*  Properties
\* ------------------------------------------------------------------------
IsAdd == last.op = "add"
IsSearch == last.op = "search"
IsReset == last.op \in {"reset", "reset_memory"}

PrePayloads == last.pre.vector_store.payloads
Payloads == vector_store.payloads

CountOf(pls, u) == Cardinality({i \in 1..Len(pls) : pls[i].pl.user_id = u})

\* the short-term effect of one add by u with text t: one entry for t at the
\* end of u's buffer (the oldest entry leaving a full buffer), nothing else
StmAppended(u, t) ==
  LET old == last.pre.short_term[u]
      kept == IF Len(old) >= STM_MAX_ITEMS THEN Tail(old) ELSE old
      new == short_term[u]
  IN /\ Len(new) = Len(kept) + 1
     /\ SubSeq(new, 1, Len(kept)) = kept
     /\ new[Len(new)].text = t
     /\ \A v \in Users \ {u} : short_term[v] = last.pre.short_term[v]

\* C1: every item a search for user u returns is a long-term record stored
\* under user_id u or an entry of u's own short-term buffer.
C1_SearchReturnsOwnItems ==
  IsSearch =>
    \A k \in 1..Len(last.items) :
      LET it == last.items[k]
      IN \/ \E j \in 1..Len(Payloads) :
              /\ Payloads[j].id = it.id
              /\ Payloads[j].pl.user_id = last.user_id
              /\ Payloads[j].pl.data = it.memory
         \/ \E j \in 1..Len(short_term[last.user_id]) :
              StItem(short_term[last.user_id][j]) = it

\* a search that returned a long-term item while another user holds a record
\* that scores over the threshold for the same query
C1_Witness ==
  /\ IsSearch
  /\ \E k \in 1..Len(last.items) : last.items[k].hash # NoneText
  /\ \E j \in 1..Len(Payloads) :
       /\ Payloads[j].pl.user_id # last.user_id
       /\ IP(embed(last.text, "search"), vector_store.index[j]) >= last.threshold

\* C2: add with infer=False inserts exactly one record (text verbatim, user
\* u), logs exactly one ADD for its id, appends one short-term entry, returns
\* exactly that one ADD descriptor and never calls the generator.
C2_VerbatimAdd ==
  (IsAdd /\ ~last.infer) =>
    /\ Len(Payloads) = Len(PrePayloads) + 1
    /\ SubSeq(Payloads, 1, Len(PrePayloads)) = PrePayloads
    /\ LET rec == Payloads[Len(Payloads)]
       IN /\ rec.pl.data = last.text
          /\ rec.pl.user_id = last.user_id
          /\ ~HasKey(PrePayloads, rec.id)
          /\ Len(db) = Len(last.pre.db) + 1
          /\ SubSeq(db, 1, Len(last.pre.db)) = last.pre.db
          /\ db[Len(db)].event = "ADD"
          /\ db[Len(db)].memory_id = rec.id
          /\ db[Len(db)].new_text = last.text
          /\ last.results = <<[id |-> rec.id, memory |-> last.text, event |-> "ADD"]>>
    /\ StmAppended(last.user_id, last.text)
    /\ last.llm_calls = 0

C2_Witness == IsAdd /\ ~last.infer /\ PrePayloads # <<>> /\ last.pre.db # <<>>

\* C3: when fact extraction gives nothing (unparseable answer, no "facts"
\* key, empty list) add with infer=True returns no result, leaves the
\* long-term store and the history log as they were and still appends one
\* short-term entry for the text.
NoFactsCase ==
  /\ IsAdd /\ last.infer
  /\ \/ last.fx.kind \in {"invalid_json", "no_facts_key"}
     \/ last.fx.kind = "parsed" /\ last.fx.facts = <<>>

C3_NoFactsNoLongTermChange ==
  NoFactsCase =>
    /\ last.results = <<>>
    /\ vector_store = last.pre.vector_store
    /\ db = last.pre.db
    /\ StmAppended(last.user_id, last.text)

C3_Witness == NoFactsCase /\ last.fx.kind = "invalid_json" /\ PrePayloads # <<>>

\* C4: when the reconciliation answer cannot be parsed, add falls back to one
\* ADD per fact: the old records stay as they are, one record per fact is
\* stored under a fresh id for user u, and one ADD descriptor per fact is
\* returned.
FallbackCase ==
  /\ IsAdd /\ last.infer /\ last.facts # <<>>
  /\ last.rx.kind \in {"invalid_json", "no_memory_key"}

C4_FallbackAddsEveryFact ==
  FallbackCase =>
    LET n == Len(PrePayloads)
        m == Len(last.facts)
    IN /\ Len(Payloads) = n + m
       /\ SubSeq(Payloads, 1, n) = PrePayloads
       /\ CountOf(Payloads, last.user_id) = CountOf(PrePayloads, last.user_id) + m
       /\ Len(last.results) = m
       /\ \A i \in 1..m :
            /\ Payloads[n + i].pl.data = last.facts[i]
            /\ Payloads[n + i].pl.user_id = last.user_id
            /\ ~HasKey(PrePayloads, Payloads[n + i].id)
            /\ \A j \in 1..m : j # i => Payloads[n + j].id # Payloads[n + i].id
            /\ last.results[i] = [id |-> Payloads[n + i].id,
                                  memory |-> last.facts[i], event |-> "ADD"]

C4_Witness == FallbackCase /\ Len(last.facts) = 2 /\ PrePayloads # <<>>

CandidateIds == {last.existing[i].id : i \in 1..Len(last.existing)}

NumberOf(acts, ev) == Cardinality({i \in 1..Len(acts) : acts[i].event = ev})

\* C5: an UPDATE or DELETE whose id is not in the candidate set of this call
\* is dropped: the record under that id (if any) is as before, none is
\* created under it, and no history row is written for it.
C5_UnknownIdsDropped ==
  (IsAdd /\ last.infer) =>
    \A k \in 1..Len(last.actions) :
      LET a == last.actions[k]
      IN (a.event \in {"UPDATE", "DELETE"} /\ a.id \notin CandidateIds) =>
           /\ FAISS_get(vector_store, a.id) = FAISS_get(last.pre.vector_store, a.id)
           /\ \A j \in (Len(last.pre.db) + 1)..Len(db) : db[j].memory_id # a.id

\* C6: an add with infer=True changes the number of u's records by the
\* number of ADD actions minus the number of DELETE actions.
C6_CountChangesByAddMinusDelete ==
  (IsAdd /\ last.infer) =>
    CountOf(Payloads, last.user_id) - CountOf(PrePayloads, last.user_id)
      = NumberOf(last.actions, "ADD") - NumberOf(last.actions, "DELETE")

\* C7: right after an ADD or UPDATE with text t under id i is applied, get(i)
\* returns a payload with text t; right after a DELETE of i, get(i) returns
\* nothing.
C7_GetAfterMutation ==
  IsAdd =>
    \A k \in 1..Len(last.probes) :
      LET p == last.probes[k]
      IN IF p.event = "DELETE" THEN p.got = <<>>
         ELSE /\ p.got # <<>>
              /\ p.got[1].id = p.id
              /\ p.got[1].payload.data = p.text

\* an UPDATE of a stored record followed by a DELETE of a stored record
C7_Witness ==
  /\ IsAdd /\ Len(last.probes) = 2
  /\ last.probes[1].event = "UPDATE" /\ HasKey(PrePayloads, last.probes[1].id)
  /\ last.probes[2].event = "DELETE" /\ HasKey(PrePayloads, last.probes[2].id)

\* C8: after reset the long-term store holds no record, every short-term
\* buffer is empty, every search returns nothing, and the history log holds
\* what it held before.
C8_ResetClearsEverything ==
  IsReset =>
    /\ Payloads = <<>> /\ vector_store.index = <<>>
    /\ \A u \in Users : short_term[u] = <<>>
    /\ \A u \in Users, q \in Texts, a \in SearchArgs :
         Memory_search(State, q, u, a[1], a[2]) = <<>>
    /\ db = last.pre.db

\* C10 as claimed: after add(t, u, infer=False) on an empty long-term store,
\* the next search of u with the default limit has an entry with text t
\* first, whatever u's buffer held before.
SearchAfterVerbatimAdd ==
  /\ IsSearch
  /\ last.after.op = "add" /\ ~last.after.infer /\ last.after.ltm_empty
  /\ last.after.user_id = last.user_id
  /\ last.limit = DEFAULT_LIMIT

C10_AddedTextIsFirst ==
  SearchAfterVerbatimAdd =>
    /\ last.items # <<>>
    /\ last.items[1].memory = last.after.text

\* C10 amended: the entry with text t is among the results, and it is the
\* first result when u's buffer held no entry before the add.
C10_AddedTextIsReturned ==
  SearchAfterVerbatimAdd =>
    /\ \E k \in 1..Len(last.items) : last.items[k].memory = last.after.text
    /\ last.after.stm_before = 0 =>
         (last.items # <<>> /\ last.items[1].memory = last.after.text)

\* such a search where the buffer held an earlier entry, and one where it
\* held none and the stored record scores under 0.99
C10_Witness ==
  /\ SearchAfterVerbatimAdd
  /\ last.after.stm_before = 0
  /\ Len(last.items) = 2
  /\ last.items[1].hash = NoneText
  /\ last.items[2].hash # NoneText

\* C9: search returns the first `limit` items of this list: of the store's
\* 10 nearest rows those of u, of these the first 3 at most that score at
\* least ltm_threshold (with their scores), and the last 5 at most of u's
\* buffer at score 0.99; ordered by falling score, items of equal score in
\* that order (long-term before short-term, short-term as inserted).
RECURSIVE ByFallingScore(_, _)
ByFallingScore(items, levels) ==
  IF levels = {} THEN <<>>
  ELSE LET top == CHOOSE x \in levels : \A y \in levels : x >= y
       IN SelectSeq(items, LAMBDA it : it.score = top)
            \o ByFallingScore(items, levels \ {top})

ExpectedBlend(q, u, limit, th) ==
  LET hits == FAISS_search(vector_store, embed(q, "search"), 10, {<<"user_id", u>>})
      over == SelectSeq(hits, LAMBDA h : h.score >= th)
      lt == [i \in 1..Min(3, Len(over)) |->
               [id |-> over[i].id, memory |-> over[i].payload.data,
                hash |-> over[i].payload.hash,
                created_at |-> over[i].payload.created_at,
                updated_at |-> over[i].payload.updated_at,
                score |-> over[i].score]]
      buf == short_term[u]
      n == Min(5, Len(buf))
      st == [i \in 1..n |->
               [id |-> buf[Len(buf) - n + i].id, memory |-> buf[Len(buf) - n + i].text,
                hash |-> NoneText, created_at |-> buf[Len(buf) - n + i].created,
                updated_at |-> NoneTime, score |-> 99]]
      all == lt \o st
      merged == ByFallingScore(all, {all[i].score : i \in 1..Len(all)})
  IN SubSeq(merged, 1, Min(limit, Len(merged)))

C9_SearchBlend ==
  IsSearch =>
    last.items = ExpectedBlend(last.text, last.user_id, last.limit, last.threshold)

\* a search with more than 3 rows over the threshold and more than 5 buffer
\* entries, cut by the limit, that returns a long-term and a short-term item
\* of the same score
C9_Witness ==
  /\ IsSearch
  /\ Len(short_term[last.user_id]) > 5
  /\ Len(OverThreshold(FAISS_search(vector_store, embed(last.text, "search"), 10,
                                    {<<"user_id", last.user_id>>}),
                       last.threshold)) > 3
  /\ Len(last.items) = last.limit
  /\ \E i, j \in 1..Len(last.items) :
       /\ last.items[i].hash # NoneText
       /\ last.items[j].hash = NoneText
       /\ last.items[i].score = last.items[j].score

\* C11: every user's buffer holds at most max_items entries; an add to a
\* full buffer evicts exactly the oldest entry of that user, the other
\* entries keep their order, the new entry comes last, and no other user's
\* buffer changes.
C11_BufferBounded ==
  /\ \A u \in Users : Len(short_term[u]) <= STM_MAX_ITEMS
  /\ last.op = "stm_add" =>
       LET old == last.pre.short_term[last.user_id]
           new == short_term[last.user_id]
       IN /\ StmAppended(last.user_id, last.text)
          /\ Len(old) = STM_MAX_ITEMS =>
               /\ Len(new) = STM_MAX_ITEMS
               /\ \A i \in 1..(STM_MAX_ITEMS - 1) : new[i] = old[i + 1]
               /\ \A i \in 1..Len(new) : new[i] # old[1]

\* an add to a full buffer while the other user holds an entry
C11_Witness ==
  /\ last.op = "stm_add"
  /\ Len(last.pre.short_term[last.user_id]) = STM_MAX_ITEMS
  /\ \E v \in Users \ {last.user_id} : short_term[v] # <<>>

\* C12: recent(u, n) returns exactly the min(n, size) newest entries of u's
\* buffer, oldest first, for every n >= 0.
C12_RecentReturnsLastN ==
  last.op = "stm_recent" =>
    LET buf == short_term[last.user_id]
        m == Min(last.limit, Len(buf))
    IN last.items = [i \in 1..m |-> buf[Len(buf) - m + i]]

\* what the claims read of a store: per payload entry its id, user_id and text
Recs(fs) ==
  [i \in 1..Len(fs.payloads) |->
     [id |-> fs.payloads[i].id,
      user_id |-> PlGet(fs.payloads[i].pl, "user_id"),
      data |-> PlGet(fs.payloads[i].pl, "data")]]

\* list(filters={"user_id": u}) as ids with user_id and text
ListView(fs, u) ==
  LET l == FAISS_list(fs, {<<"user_id", u>>}, 0)
  IN [i \in 1..Len(l) |->
        [id |-> l[i].id, user_id |-> PlGet(l[i].payload, "user_id"),
         data |-> PlGet(l[i].payload, "data")]]

SameStore(f, g) == f.index = g.index /\ Recs(f) = Recs(g)

Aligned(fs) == Len(fs.index) = Len(fs.payloads)

\* C13: while every call has returned successfully, a new store constructed
\* on the same path holds the same ids with the same text and user_id, and
\* list(filters={user_id: u}) returns the same records for every u; this is
\* so after each single call.
C13_RestartRoundTrip ==
  /\ last.clean =>
       LET r == FAISS_init(vector_store.metric_type, vector_store.disk)
       IN /\ ~r.raised
          /\ Recs(r.fs) = Recs(vector_store)
          /\ \A u \in Users : ListView(r.fs, u) = ListView(vector_store, u)
  /\ (last.op = "reopen" /\ last.clean) =>
       /\ Recs(vector_store) = Recs(last.pre)
       /\ \A u \in Users : ListView(vector_store, u) = ListView(last.pre, u)

\* a reopening after two successful mutations that left records of both users
C13_Witness ==
  /\ last.op = "reopen" /\ last.clean /\ last.n = MaxStoreCalls
  /\ \A u \in Users : ListView(vector_store, u) # <<>>
  /\ \E i \in 1..Len(vector_store.payloads) :
       vector_store.payloads[i].pl.vector.kind = "list"

\* a call that completes and keeps rows and payloads in step
WellFormed(c) ==
  \/ c.op \in {"delete", "reset"}
  \/ /\ c.op \in {"insert", "update"}
     /\ Len(c.vectors) = 1 /\ Len(c.payloads) = 1 /\ Len(c.ids) = 1
     /\ c.vectors[1] # NoneVec
     /\ "data" \in DOMAIN c.payloads[1]
     /\ Hashable(c.ids[1])

InSync(fs) ==
  LET r == FAISS_init(fs.metric_type, fs.disk)
  IN ~r.raised /\ SameStore(r.fs, fs)

\* C14: a process stop inside a mutation leaves, on reopening, the complete
\* state before the mutation or the complete state after it; the two files
\* agree in row count; the record of an interrupted update is not missing.
C14_StopLeavesBeforeOrAfter ==
  (/\ last.op = "stop" /\ WellFormed(last.call)
   /\ InSync(last.pre) /\ Aligned(last.pre)
   /\ (last.call.op = "insert" => ~HasKey(last.pre.payloads, last.call.ids[1]))) =>
    /\ ~last.raised
    /\ SameStore(vector_store, last.pre) \/ SameStore(vector_store, last.post)
    /\ Len(vector_store.disk.index.data) = Len(vector_store.disk.payloads.data)
    /\ (last.call.op = "update" /\ HasKey(last.pre.payloads, last.call.id)) =>
         HasKey(vector_store.payloads, last.call.id)

\* C15: constructing the store when one of its files exists but cannot be
\* read never raises and gives an empty store with an index of the
\* configured metric, under IP and under L2.
C15_UnreadableFileStartsEmpty ==
  (/\ last.op \in {"reopen", "stop"}
   /\ \/ vector_store.disk.index.status = "corrupt"
      \/ vector_store.disk.payloads.status = "corrupt") =>
    /\ ~last.raised
    /\ vector_store.index = <<>> /\ vector_store.payloads = <<>>
    /\ vector_store.index_kind = vector_store.metric_type

\* C16: search returns at most k hits, each passing the filter, in
\* descending score order; under L2 the score is the negative distance.
C16_SearchOrdered ==
  (last.op = "search" /\ ~last.raised) =>
    /\ Len(last.hits) <= last.k
    /\ \A i \in 1..Len(last.hits) : ~Rejected(last.hits[i].payload, last.filters)
    /\ \A i, j \in 1..Len(last.hits) :
         i < j => last.hits[i].score >= last.hits[j].score
    /\ vector_store.metric_type = "L2" =>
         \A i \in 1..Len(last.hits) : last.hits[i].score <= 0

\* rows of the store that have a payload passing the filter
Passing(fs, filters) ==
  {i \in 1..Min(Len(fs.index), Len(fs.payloads)) :
     ~Rejected(fs.payloads[i].pl, filters)}

\* C17: search never raises; on an empty store it returns nothing; with
\* fewer than k rows it returns every row that passes the filter; when the
\* filter rejects each of the k nearest rows it returns nothing.
C17_SearchEdgeCases ==
  last.op = "search" =>
    /\ ~last.raised
    /\ vector_store.index = <<>> => last.hits = <<>>
    /\ Len(vector_store.index) < last.k =>
         /\ Len(last.hits) = Cardinality(Passing(vector_store, last.filters))
         /\ \A i \in Passing(vector_store, last.filters) :
              \E h \in 1..Len(last.hits) :
                last.hits[h].id = vector_store.payloads[i].id
    /\ LET near == IndexSearch(vector_store.index_kind, vector_store.index,
                               last.q, last.k)
       IN (\A n \in 1..Len(near) :
             near[n] \notin Passing(vector_store, last.filters))
            => last.hits = <<>>

\* a search whose nearest row is rejected while another row would pass, and
\* a store with more rows than payloads
C17_Witness ==
  /\ last.op = "search" /\ last.hits = <<>>
  /\ Passing(vector_store, last.filters) # {}
  /\ Len(vector_store.index) > Len(vector_store.payloads)

\* C18: update of a stored id with only a payload keeps the row and its
\* vector and replaces the payload; with only a vector it keeps the payload
\* and replaces the vector; the record stays and the row count is unchanged.
C18_UpdateReplacesOnlySupplied ==
  LET c == last.call
      old == FAISS_get(last.pre, c.id)
      new == FAISS_get(vector_store, c.id)
  IN (/\ last.op = "update" /\ old # <<>> /\ Aligned(last.pre)
      /\ (c.vectors[1] = NoneVec) # ("none" \in DOMAIN c.payloads[1])) =>
       /\ ~last.raised
       /\ Len(vector_store.index) = Len(last.pre.index)
       /\ new # <<>>
       /\ c.vectors[1] = NoneVec =>
            /\ new[1].payload = c.payloads[1]
            /\ vector_store.index[KeyPos(vector_store.payloads, c.id)]
                 = last.pre.index[KeyPos(last.pre.payloads, c.id)]
       /\ "none" \in DOMAIN c.payloads[1] =>
            /\ new[1].payload = old[1].payload
            /\ vector_store.index[KeyPos(vector_store.payloads, c.id)] = c.vectors[1]

\* C19: insert appends all n rows or none, whether it returns or raises, so
\* index rows and payload entries stay equal in number.
C19_InsertAllOrNothing ==
  LET c == last.call
      n == Len(c.vectors)
  IN (last.op = "insert" /\ Aligned(last.pre)) =>
       /\ Aligned(vector_store)
       /\ \/ SameStore(vector_store, last.pre)
          \/ /\ Len(vector_store.index) = Len(last.pre.index) + n
             /\ Len(vector_store.payloads) = Len(last.pre.payloads) + n

\* C20: a search leaves the long-term store (in memory and on disk), every
\* short-term buffer and the history log as they were, and a search that
\* follows a search with the same arguments returns the same list.
C20_SearchIsPure ==
  [][last'.op = "search" =>
       /\ vector_store' = vector_store
       /\ short_term' = short_term
       /\ db' = db
       /\ (/\ last.op = "search"
           /\ last'.user_id = last.user_id /\ last'.text = last.text
           /\ last'.limit = last.limit /\ last'.threshold = last.threshold)
            => last'.items = last.items]_vars

\* a search that returned a long-term and a short-term item, on a store with
\* files on disk and a non-empty history log
C20_Witness ==
  /\ IsSearch
  /\ \E i, j \in 1..Len(last.items) :
       last.items[i].hash # NoneText /\ last.items[j].hash = NoneText
  /\ vector_store.disk.payloads.status = "ok"
  /\ db # <<>>
  /\ last.pre = Snapshot

\* the records of user u whose text is t
RecordsOf(pls, u, t) ==
  {i \in 1..Len(pls) : pls[i].pl.user_id = u /\ pls[i].pl.data = t}

\* the ids the last add allocated: those of its ADD results
AddResults == {k \in 1..Len(last.results) : last.results[k].event = "ADD"}

\* C21: the ids of the collection are pairwise distinct in every reachable
\* state; every ADD of an add call allocates an id that no record held
\* before the call and no other ADD of the call received; add(t, u,
\* infer=False) on a store that already holds t for u leaves one record more
\* for (u, t), under an id of its own.
C21_AddAllocatesFreshId ==
  /\ \A i, j \in 1..Len(Payloads) : Payloads[i].id = Payloads[j].id => i = j
  /\ IsAdd =>
       /\ \A k \in AddResults :
            /\ last.results[k].id \notin StoredIds(last.pre.vector_store)
            /\ \A j \in AddResults : last.results[j].id = last.results[k].id => j = k
       /\ ~last.infer =>
            /\ Cardinality(RecordsOf(Payloads, last.user_id, last.text))
                 = Cardinality(RecordsOf(PrePayloads, last.user_id, last.text)) + 1
            /\ Len(Payloads) = Len(PrePayloads) + 1

\* the second of two add(t, u, infer=False) calls with the same text
C21_Witness ==
  /\ IsAdd /\ ~last.infer
  /\ RecordsOf(PrePayloads, last.user_id, last.text) # {}
  /\ Cardinality({Payloads[i].id : i \in RecordsOf(Payloads, last.user_id, last.text)}) = 2

\* C22: no step of RAGPipeline.query or RAGPipeline.stream_query (creating
\* the generator, each next(), closing it after any number of chunks)
\* changes the long-term store, a short-term buffer or the history log, and
\* a search for the same user returns after the step what it returned
\* before it.
C22_RagNeverWrites ==
  [][last'.op \in RagOps =>
       /\ vector_store' = vector_store
       /\ short_term' = short_term
       /\ db' = db
       /\ \A q \in Texts :
            Memory_search(State', q, last'.user_id, DEFAULT_LIMIT, DEFAULT_THRESHOLD)
              = Memory_search(State, q, last'.user_id, DEFAULT_LIMIT, DEFAULT_THRESHOLD)]_vars

\* a stream closed after its first chunk, that had retrieved a long-term and
\* a short-term item, on an engine with a history log
C22_Witness ==
  /\ last.op = "close" /\ last.tokens = 1
  /\ \E i, j \in 1..Len(last.items) :
       /\ \E k \in 1..Len(Payloads) : Payloads[k].id = last.items[i].id
       /\ last.items[j].id[1] = "stm"
  /\ db # <<>>
  /\ last.pre = Snapshot

\* C23: invalid input is rejected, so no call with invalid input returns; in
\* particular a search with limit <= 0 fails instead of returning a result
\* list.  A state with last.op = "search" is one in which the call returned
\* the list last.items.
C23_InvalidInputRejected == ~(IsSearch /\ last.limit <= 0)

\* C24: when an embedder or generator call inside add raises, the short-term
\* buffer, the long-term store and the history log are as they were before
\* the add call.
C24_FailureLeavesStateUnchanged ==
  last.op = "add_raised" => Snapshot = last.pre

AllDone == \A i \in ThreadIds : threads[i].pc = "done"

\* the hit h is what store s holds for h.id: its payload, and the score of
\* its own vector against q
HitFrom(s, h, q) ==
  /\ HasKey(s.payloads, h.id)
  /\ LET i == KeyPos(s.payloads, h.id)
     IN /\ h.payload = s.payloads[i].pl
        /\ i <= Len(s.index)
        /\ h.score = Distance(s.index_kind, q, s.index[i])

\* C25: a search running on one thread while insert, update, delete (or
\* reset) runs on another returns, and each of its hits pairs an id with the
\* payload and the score of that id's vector as they are before or after
\* the mutation.
C25_SearchNeverTorn ==
  (AllDone /\ threads[2].call.op = "search") =>
     /\ ~threads[2].raised
     /\ \A n \in 1..Len(threads[2].hits) :
          \/ HitFrom(last.start, threads[2].hits[n], threads[2].call.q)
          \/ HitFrom(Serial(last.start, threads[1].call), threads[2].hits[n],
                     threads[2].call.q)

\* C26: two mutations run by two handlers at once leave the store, in
\* memory and on disk, as one of the two serial orders leaves it, with as
\* many index rows as payload entries and every inserted record present
\* with its own vector.
C26_MutationsSerialisable ==
  (AllDone /\ threads[2].call.op # "search") =>
     /\ \A i \in ThreadIds : ~threads[i].raised
     /\ vector_store \in
          {Serial(Serial(last.start, threads[1].call), threads[2].call),
           Serial(Serial(last.start, threads[2].call), threads[1].call)}
     /\ Len(vector_store.index) = Len(vector_store.payloads)
     /\ (\A i \in ThreadIds : threads[i].call.op = "insert") =>
          \A i \in ThreadIds :
            /\ HasKey(vector_store.payloads, threads[i].call.id)
            /\ vector_store.index[KeyPos(vector_store.payloads, threads[i].call.id)]
                 = threads[i].call.vec

\* the KNN scan Memory.search runs for user u and query text t
SearchKnn(u, t) ==
  FAISS_search(vector_store, embed(t, "search"), SEARCH_KNN_LIMIT,
               {<<"user_id", u>>})

\* the short-term entries Memory.search blends in for user u
SearchRecent(u) == LastN(STM_recent(short_term, u, STM_RECENT_LIMIT), STM_LAST)

\* the probes of the last add that are the last one on their id
FinalProbes ==
  {k \in 1..Len(last.probes) :
     \A j \in (k + 1)..Len(last.probes) : last.probes[j].id # last.probes[k].id}

C28_ProceduralStoresOneRecord ==
  last.op = "summarize_procedural" =>
    /\ ~last.raised
    /\ Len(Payloads) = Len(last.pre.fs.payloads) + 1
    /\ SubSeq(Payloads, 1, Len(last.pre.fs.payloads)) = last.pre.fs.payloads
    /\ PlGet(Payloads[Len(Payloads)].pl, "memory_type") = "procedural"
    /\ PlGet(Payloads[Len(Payloads)].pl, "user_id") = last.user_id

\* C29: AsyncMemory.add returns what Memory.add returns from the same
\* state, arguments and generator answers, and leaves the same long-term
\* records (index and payloads, in memory and on disk), short-term buffers
\* and history rows.
C29_AsyncMirrorsSync ==
  last.op = "async_add" =>
    LET sync == Memory_add(last.pre, last.text, last.user_id, last.infer,
                           last.fx, last.rx)
    IN /\ ~last.raised
       /\ last.results = sync.results
       /\ vector_store = sync.st.fs
       /\ short_term = sync.st.stm
       /\ db = sync.st.history

\* C30: an UPDATE of a stored record i leaves i's created_at at the value it
\* had before the update (never null, never another record's value) and sets
\* its updated_at, whatever other records are in the store.  Checked on the
\* first action an add applies to i, so that the value before the update is
\* the one the store held when the add began.
C30_UpdateKeepsCreatedAt ==
  IsAdd =>
    \A k \in 1..Len(last.probes) :
      LET p == last.probes[k]
      IN (/\ p.event = "UPDATE"
          /\ HasKey(PrePayloads, p.id)
          /\ \A j \in 1..(k - 1) : last.probes[j].id # p.id) =>
            /\ p.got # <<>>
            /\ p.got[1].payload.created_at
                 = PrePayloads[KeyPos(PrePayloads, p.id)].pl.created_at
            /\ p.got[1].payload.created_at # NoneTime
            /\ p.got[1].payload.updated_at # NoneTime

\* C31: the history row of an UPDATE of a stored record i carries as
\* prev_text the text i held before the update.  The row of the k-th applied
\* action is the k-th row the add wrote; the first action on i finds i as
\* the store held it when the add began.
C31_UpdateLogsOwnPrevText ==
  IsAdd =>
    \A k \in 1..Len(last.probes) :
      LET p == last.probes[k]
      IN (/\ p.event = "UPDATE"
          /\ HasKey(PrePayloads, p.id)
          /\ \A j \in 1..(k - 1) : last.probes[j].id # p.id) =>
            LET row == db[Len(last.pre.db) + k]
            IN /\ row.event = "UPDATE"
               /\ row.memory_id = p.id
               /\ row.prev_text = PrePayloads[KeyPos(PrePayloads, p.id)].pl.data


\* C36: an add by user A leaves every record of another user as it was: after
\* the call the record is in the collection under the same id with the same
\* text and the same user_id, whatever ids the reconciliation answer names.
C36_AddLeavesOtherUsersRecords ==
  IsAdd =>
    \A i \in 1..Len(PrePayloads) :
      PrePayloads[i].pl.user_id # last.user_id =>
        \E j \in 1..Len(Payloads) :
          /\ Payloads[j].id = PrePayloads[i].id
          /\ Payloads[j].pl.data = PrePayloads[i].pl.data
          /\ Payloads[j].pl.user_id = PrePayloads[i].pl.user_id

\* C40: the history agrees with the collection: the first action of an add on
\* an id that is an UPDATE or a DELETE finds a record under that id, and
\* every record of the collection has an ADD row for its id.
C40_HistoryAgreesWithStore ==
  /\ IsAdd =>
       \A k \in 1..Len(last.probes) :
         LET p == last.probes[k]
         IN (/\ p.event \in {"UPDATE", "DELETE"}
             /\ \A j \in 1..(k - 1) : last.probes[j].id # p.id) =>
               /\ HasKey(PrePayloads, p.id)
               /\ db[Len(last.pre.db) + k].event = p.event
               /\ db[Len(last.pre.db) + k].memory_id = p.id
  /\ \A i \in 1..Len(Payloads) :
       \E r \in 1..Len(db) :
         db[r].memory_id = Payloads[i].id /\ db[r].event = "ADD"


\* the events the loop of add applies; every other event takes the else branch
Applied == {"ADD", "UPDATE", "DELETE"}

\* C34: an action whose event is NONE or any value outside ADD, UPDATE,
\* DELETE is reported at its place in the returned list with event NONE and
\* the action's id and text; it writes no history row (the add writes one
\* row per applied action) and changes no record: an add whose actions are
\* all of this kind leaves the collection, its files and the history as they
\* were.
C34_NoneChangesNothing ==
  (IsAdd /\ last.infer /\ last.facts # <<>>) =>
    LET others == {k \in 1..Len(last.actions) : last.actions[k].event \notin Applied}
    IN /\ Len(last.results) = Len(last.actions)
       /\ \A k \in others :
            last.results[k] = [id |-> last.actions[k].id,
                               memory |-> last.actions[k].text,
                               event |-> "NONE"]
       /\ Len(db) = Len(last.pre.db) + Len(last.actions) - Cardinality(others)
       /\ others = 1..Len(last.actions) =>
            /\ vector_store = last.pre.vector_store
            /\ db = last.pre.db

\* an add on a non-empty collection whose answer holds a NONE for an unknown
\* id and an unknown event naming a stored record
C34_Witness ==
  /\ IsAdd /\ last.infer /\ Len(last.actions) = 2
  /\ last.actions[1].event = "NONE"
  /\ last.actions[2].event = "MERGE"
  /\ HasKey(PrePayloads, last.actions[2].id)
  /\ PrePayloads[KeyPos(PrePayloads, last.actions[2].id)].pl.data # last.actions[2].text
  /\ Len(last.results) = 2


\* every index row is the vector stored with the payload entry at its position
OwnVectors(fs) ==
  /\ Aligned(fs)
  /\ \A i \in 1..Len(fs.payloads) :
       "vector" \in DOMAIN fs.payloads[i].pl =>
         fs.index[i] = fs.payloads[i].pl.vector.val

\* C35: a returning insert, update, delete or reset with one vector, one
\* payload and one hashable id (present or absent), and a reload from disk
\* while every call has returned, keep the index rows and the payload
\* entries equal in number and paired by position with their own vectors.
C35_RowsMatchPayloads ==
  (/\ \/ last.op \in {"insert", "update", "delete", "reset"} /\ WellFormed(last.call)
      \/ last.op = "reopen" /\ last.clean
   /\ ~last.raised
   /\ OwnVectors(last.pre)) =>
     OwnVectors(vector_store)


\* the entries of s at the positions in keep, in order
Restrict(s, keep) ==
  LET F[i \in 0..Len(s)] ==
        IF i = 0 THEN <<>>
        ELSE IF i \in keep THEN Append(F[i - 1], s[i]) ELSE F[i - 1]
  IN F[Len(s)]

\* the engine with the long-term records of users other than u taken away:
\* it agrees with the present one on u's records and on u's buffer
OwnOnly(u) ==
  LET own == {i \in 1..Len(Payloads) : Payloads[i].pl.user_id = u}
  IN [State EXCEPT !.fs.index = Restrict(vector_store.index, own),
                   !.fs.payloads = Restrict(Payloads, own)]

\* C37: a search for user u returns what it returns on the engine that holds
\* u's records and buffer and no record of another user; so does the
\* candidate lookup of u's reconciliation for every fact.
C37_SearchIgnoresOtherUsers ==
  IsSearch =>
    /\ Aligned(vector_store)
    /\ last.items = Memory_search(OwnOnly(last.user_id), last.text, last.user_id,
                                  last.limit, last.threshold)
    /\ \A t \in FactTexts :
         Candidates(vector_store, <<t>>, {<<"user_id", last.user_id>>}, <<>>)
           = Candidates(OwnOnly(last.user_id).fs, <<t>>,
                        {<<"user_id", last.user_id>>}, <<>>)


\* the last add the engine served was made by u: the newest entry of all
\* buffers is the last one of u's
LastAddBy(u) ==
  /\ short_term[u] # <<>>
  /\ \A v \in Users : \A j \in 1..Len(short_term[v]) :
       short_term[v][j].created <= short_term[u][Len(short_term[u])].created

\* C38: a search by u with limit >= 1 that follows an add by u returns the
\* short-term entry that add appended.
C38_TruncationKeepsNewestEntry ==
  (IsSearch /\ last.limit >= 1 /\ LastAddBy(last.user_id)) =>
    \E k \in 1..Len(last.items) :
      /\ last.items[k].id = short_term[last.user_id][Len(short_term[last.user_id])].id
      /\ last.items[k].memory = short_term[last.user_id][Len(short_term[last.user_id])].text


\* the context block of the items whose sources a RAG call reported
SourcesBlock(sources) == [i \in 1..Len(sources) |-> <<i, sources[i].text>>]

\* C32: the message list stream_query opens the generator's stream with is
\* the one query hands the generator for the same question and the same
\* retrieved items: the citation prompt, a system message with the context
\* block, the question as the user message.
C32_StreamSendsQueryMessages ==
  last.op = "next" =>
    last.messages = ask_llm_messages(last.text, SourcesBlock(last.items))


\* C33: an add whose reconciliation answer parses, has a "memory" key and is
\* structurally invalid does not raise and ends as the add does whose answer
\* does not parse: one ADD per extracted fact, nothing else.
C33_InvalidAnswerFailsClosed ==
  last.op = "add_invalid" =>
    LET exp == Memory_add(last.pre, last.text, last.user_id, TRUE, last.fx,
                          [kind |-> "invalid_json", actions |-> <<>>])
    IN /\ ~last.raised
       /\ last.results = exp.results
       /\ vector_store = exp.st.fs
       /\ db = exp.st.history


\* C39: with auto-summary enabled and cadence n, no user's message counter
\* exceeds n and no user's chat log holds more than n messages.
C39_CounterAndLogBounded ==
  (client # NoClient /\ client.enabled) =>
    \A u \in Users :
      /\ client.msg_counter[u] <= client.n
      /\ Len(client.chat_logs[u]) <= client.n

====
